---------------------------- MODULE Spec2Model ----------------------------
(***************************************************************************)
(* UI hierarchy analysis of claude-in-mobile (ui-parser.ts): the markup    *)
(* parser, the desktop text parser, the fuzzy matcher findBestMatch, the   *)
(* element queries, the screen analysis, the tree formatter and the diff.  *)
(* Strings are TLA+ strings; a character is a string of length 1.          *)
(***************************************************************************)
EXTENDS Integers, Sequences, FiniteSets, TLC

VARIABLES
    pc,             \* "input" before a call, afterwards the name of the function that returned
    input,          \* the raw hierarchy dump handed to a parser (xml / hierarchyText)
    elements,       \* UiElement[]: result of a parser, argument of the matcher
    description,    \* argument of findBestMatch
    args,           \* the other arguments of a call (criteria, options, activity, before)
    result,         \* return value of the function named by pc
    cachedElements, \* the router's cache of the last parse (tap by index)
    device          \* the device behind adb: its screen and what the router did to it

vars == <<pc, input, elements, description, args, result, cachedElements, device>>

(***************************************************************************)
(* JavaScript string primitives used by ui-parser.ts                       *)
(***************************************************************************)
CharAt(s, i) == SubSeq(s, i, i)

\* s.startsWith(t) at 1-based position i
MatchesAt(s, t, i) == i >= 1 /\ i + Len(t) - 1 <= Len(s) /\ SubSeq(s, i, i + Len(t) - 1) = t

\* least position >= from where t occurs in s, 0 when there is none
IndexOfFrom(s, t, from) ==
    IF \E i \in from..(Len(s) - Len(t) + 1) : MatchesAt(s, t, i)
    THEN CHOOSE i \in from..(Len(s) - Len(t) + 1) :
            MatchesAt(s, t, i) /\ \A j \in from..(i - 1) : ~MatchesAt(s, t, j)
    ELSE 0

\* String.prototype.includes
Includes(s, t) == \E i \in 1..(Len(s) - Len(t) + 1) : MatchesAt(s, t, i)

\* the lower-case letter of each upper-case letter
LowerOf ==
    [A |-> "a", B |-> "b", C |-> "c", D |-> "d", E |-> "e", F |-> "f", G |-> "g",
     H |-> "h", I |-> "i", J |-> "j", K |-> "k", L |-> "l", M |-> "m", N |-> "n",
     O |-> "o", P |-> "p", Q |-> "q", R |-> "r", S |-> "s", T |-> "t", U |-> "u",
     V |-> "v", W |-> "w", X |-> "x", Y |-> "y", Z |-> "z"]

DigitChars == "0123456789"

IsDigit(c) == c \in {"0", "1", "2", "3", "4", "5", "6", "7", "8", "9"}

\* \w of a JavaScript regular expression
IsWordChar(c) ==
    c \in DOMAIN LowerOf \/ c \in {LowerOf[u] : u \in DOMAIN LowerOf} \/ IsDigit(c) \/ c = "_"

\* \s of a JavaScript regular expression, also what trim() strips
IsSpace(c) == c \in {" ", "\t", "\n", "\r"}

LowerChar(c) == IF c \in DOMAIN LowerOf THEN LowerOf[c] ELSE c

RECURSIVE ToLowerCase(_)
ToLowerCase(s) ==
    IF Len(s) = 0 THEN "" ELSE LowerChar(CharAt(s, 1)) \o ToLowerCase(SubSeq(s, 2, Len(s)))

RECURSIVE TrimStart(_)
TrimStart(s) ==
    IF Len(s) > 0 /\ IsSpace(CharAt(s, 1)) THEN TrimStart(SubSeq(s, 2, Len(s))) ELSE s

RECURSIVE TrimEnd(_)
TrimEnd(s) ==
    IF Len(s) > 0 /\ IsSpace(CharAt(s, Len(s))) THEN TrimEnd(SubSeq(s, 1, Len(s) - 1)) ELSE s

\* String.prototype.trim
Trim(s) == TrimEnd(TrimStart(s))

\* s.split(sep) for a non-empty separator: the pieces, in order
RECURSIVE Split(_, _)
Split(s, sep) ==
    LET i == IndexOfFrom(s, sep, 1)
    IN  IF i = 0 THEN <<s>>
        ELSE <<SubSeq(s, 1, i - 1)>> \o Split(SubSeq(s, i + Len(sep), Len(s)), sep)

\* s.replace(/c/g, d) for single characters c and d
RECURSIVE ReplaceAll(_, _, _)
ReplaceAll(s, c, d) ==
    IF Len(s) = 0 THEN ""
    ELSE (IF CharAt(s, 1) = c THEN d ELSE CharAt(s, 1)) \o ReplaceAll(SubSeq(s, 2, Len(s)), c, d)

\* the largest j such that s[i..j] are all digits (i - 1 when s[i] is no digit): \d+ is greedy
RECURSIVE DigitsEnd(_, _)
DigitsEnd(s, i) ==
    IF i <= Len(s) /\ IsDigit(CharAt(s, i)) THEN DigitsEnd(s, i + 1) ELSE i - 1

\* parseInt of a string of decimal digits
RECURSIVE ParseInt(_)
ParseInt(s) ==
    IF Len(s) = 0 THEN 0
    ELSE ParseInt(SubSeq(s, 1, Len(s) - 1)) * 10 + (IndexOfFrom(DigitChars, CharAt(s, Len(s)), 1) - 1)

\* Math.floor(n / 2) for an integer n >= 0
FloorHalf(n) == n \div 2

Min(a, b) == IF a < b THEN a ELSE b

(***************************************************************************)
(* parseUiHierarchy: the uiautomator markup parser                         *)
(***************************************************************************)

\* /<node[^>]+>/ matches at p: "<node", one or more characters other than ">", then ">"
NodeMatchesAt(s, p) ==
    /\ MatchesAt(s, "<node", p)
    /\ p + 5 <= Len(s)
    /\ CharAt(s, p + 5) # ">"
    /\ IndexOfFrom(s, ">", p + 6) # 0

\* nodeRegex.exec(xml) with lastIndex = from: start of the next match, 0 for null
NodeStart(s, from) ==
    LET hits == {p \in from..Len(s) : NodeMatchesAt(s, p)}
    IN  IF hits = {} THEN 0 ELSE CHOOSE p \in hits : \A q \in hits : p <= q

\* position of the ">" that ends the match starting at p
NodeEnd(s, p) == IndexOfFrom(s, ">", p + 6)

\* /bounds="\[(\d+),(\d+)\]\[(\d+),(\d+)\]"/ tried at position i: the four
\* captured digit strings, or <<>> when the pattern does not match there
BoundsMatchAt(s, i) ==
    LET a  == i + 9
        e1 == DigitsEnd(s, a)
        b  == e1 + 2
        e2 == DigitsEnd(s, b)
        c  == e2 + 3
        e3 == DigitsEnd(s, c)
        d  == e3 + 2
        e4 == DigitsEnd(s, d)
    IN  IF /\ MatchesAt(s, "bounds=\"[", i)
           /\ e1 >= a /\ MatchesAt(s, ",", e1 + 1)
           /\ e2 >= b /\ MatchesAt(s, "][", e2 + 1)
           /\ e3 >= c /\ MatchesAt(s, ",", e3 + 1)
           /\ e4 >= d /\ MatchesAt(s, "]\"", e4 + 1)
        THEN <<SubSeq(s, a, e1), SubSeq(s, b, e2), SubSeq(s, c, e3), SubSeq(s, d, e4)>>
        ELSE <<>>

\* a match that falls back to zero bounds instead of null
BoundsMatchOrZero(s) ==
    LET hits == {i \in 1..Len(s) : BoundsMatchAt(s, i) # <<>>}
    IN  IF hits = {} THEN <<"0", "0", "0", "0">>
        ELSE BoundsMatchAt(s, CHOOSE i \in hits : \A j \in hits : i <= j)

\* nodeStr.match(boundsRegex): the captures of the leftmost match, <<>> for null
BoundsMatch(s) ==
    LET hits == {i \in 1..Len(s) : BoundsMatchAt(s, i) # <<>>}
    IN  IF hits = {} THEN <<>>
        ELSE BoundsMatchAt(s, CHOOSE i \in hits : \A j \in hits : i <= j)

\* extractAttr: new RegExp(`${attrName}="([^"]*)"`), leftmost match, "" for none
extractAttr(nodeStr, attrName) ==
    LET open == attrName \o "=\""
        hits == {i \in 1..Len(nodeStr) :
                    /\ MatchesAt(nodeStr, open, i)
                    /\ IndexOfFrom(nodeStr, "\"", i + Len(open)) # 0}
    IN  IF hits = {} THEN ""
        ELSE LET i == CHOOSE h \in hits : \A j \in hits : h <= j
             IN  SubSeq(nodeStr, i + Len(open), IndexOfFrom(nodeStr, "\"", i + Len(open)) - 1)

\* centerX / centerY of parseUiHierarchy: Math.floor((lo + hi) / 2)
CenterRoundedUp(lo, hi) == (lo + hi + 1) \div 2
Center(lo, hi) == FloorHalf(lo + hi)

\* the UiElement literal built for one node with parsed bounds
NodeElement(nodeStr, index, bm) ==
    LET bounds == [x1 |-> ParseInt(bm[1]), y1 |-> ParseInt(bm[2]),
                   x2 |-> ParseInt(bm[3]), y2 |-> ParseInt(bm[4])]
    IN  [index         |-> index,
         resourceId    |-> extractAttr(nodeStr, "resource-id"),
         className     |-> extractAttr(nodeStr, "class"),
         packageName   |-> extractAttr(nodeStr, "package"),
         text          |-> extractAttr(nodeStr, "text"),
         contentDesc   |-> extractAttr(nodeStr, "content-desc"),
         checkable     |-> extractAttr(nodeStr, "checkable") = "true",
         checked       |-> extractAttr(nodeStr, "checked") = "true",
         clickable     |-> extractAttr(nodeStr, "clickable") = "true",
         enabled       |-> extractAttr(nodeStr, "enabled") = "true",
         focusable     |-> extractAttr(nodeStr, "focusable") = "true",
         focused       |-> extractAttr(nodeStr, "focused") = "true",
         scrollable    |-> extractAttr(nodeStr, "scrollable") = "true",
         longClickable |-> extractAttr(nodeStr, "long-clickable") = "true",
         password      |-> extractAttr(nodeStr, "password") = "true",
         selected      |-> extractAttr(nodeStr, "selected") = "true",
         bounds        |-> bounds,
         centerX       |-> Center(bounds.x1, bounds.x2),
         centerY       |-> Center(bounds.y1, bounds.y2),
         width         |-> bounds.x2 - bounds.x1,
         height        |-> bounds.y2 - bounds.y1]

\* a loop that lets a skipped node consume an index
RECURSIVE ParseLoopCountingSkipped(_, _, _, _)
ParseLoopCountingSkipped(s, lastIndex, index, elems) ==
    LET p == NodeStart(s, lastIndex)
    IN  IF p = 0 THEN elems
        ELSE LET q       == NodeEnd(s, p)
                 nodeStr == SubSeq(s, p, q)
                 bm      == BoundsMatch(nodeStr)
             IN  IF bm = <<>> THEN ParseLoopCountingSkipped(s, q + 1, index + 1, elems)
                 ELSE ParseLoopCountingSkipped(s, q + 1, index + 1,
                                               Append(elems, NodeElement(nodeStr, index, bm)))

\* the while loop of parseUiHierarchy, from regex position lastIndex on
RECURSIVE ParseLoop(_, _, _, _)
ParseLoop(s, lastIndex, index, elems) ==
    LET p == NodeStart(s, lastIndex)
    IN  IF p = 0 THEN elems
        ELSE LET q       == NodeEnd(s, p)
                 nodeStr == SubSeq(s, p, q)
                 bm      == BoundsMatch(nodeStr)
             IN  IF bm = <<>> THEN ParseLoop(s, q + 1, index, elems)
                 ELSE ParseLoop(s, q + 1, index + 1,
                                Append(elems, NodeElement(nodeStr, index, bm)))

parseUiHierarchy(s) == ParseLoop(s, 1, 0, <<>>)

(***************************************************************************)
(* desktopHierarchyToUiElements: the line-oriented text parser             *)
(***************************************************************************)

\* stands for the box-drawing character U+2500, which an ASCII module cannot write
RuleChar == "~"

\* the largest j such that s[i..j] are all \w characters (i - 1 for none)
RECURSIVE WordEnd(_, _)
WordEnd(s, i) ==
    IF i <= Len(s) /\ IsWordChar(CharAt(s, i)) THEN WordEnd(s, i + 1) ELSE i - 1

\* the largest j such that s[i..j] are all \s characters (i - 1 for none)
RECURSIVE SpacesEnd(_, _)
SpacesEnd(s, i) ==
    IF i <= Len(s) /\ IsSpace(CharAt(s, i)) THEN SpacesEnd(s, i + 1) ELSE i - 1

\* trimmed.match(/<(\w+)>/): <<capture>> of the leftmost match, <<>> for null
ClassMatch(s) ==
    LET hits == {i \in 1..Len(s) :
                    /\ CharAt(s, i) = "<"
                    /\ WordEnd(s, i + 1) >= i + 1
                    /\ MatchesAt(s, ">", WordEnd(s, i + 1) + 1)}
    IN  IF hits = {} THEN <<>>
        ELSE LET i == CHOOSE h \in hits : \A j \in hits : h <= j
             IN  <<SubSeq(s, i + 1, WordEnd(s, i + 1))>>

\* trimmed.match(/name="([^"]*)"/): <<capture>> of the leftmost match, <<>> for null
AttrMatch(s, name) ==
    LET open == name \o "=\""
        hits == {i \in 1..Len(s) :
                    /\ MatchesAt(s, open, i)
                    /\ IndexOfFrom(s, "\"", i + Len(open)) # 0}
    IN  IF hits = {} THEN <<>>
        ELSE LET i == CHOOSE h \in hits : \A j \in hits : h <= j
             IN  <<SubSeq(s, i + Len(open), IndexOfFrom(s, "\"", i + Len(open)) - 1)>>

\* /@ \((\d+),\s*(\d+)\)/ tried at position i
CoordMatchAt(s, i) ==
    LET a  == i + 3
        e1 == DigitsEnd(s, a)
        b  == SpacesEnd(s, e1 + 2) + 1
        e2 == DigitsEnd(s, b)
    IN  IF /\ MatchesAt(s, "@ (", i)
           /\ e1 >= a /\ MatchesAt(s, ",", e1 + 1)
           /\ e2 >= b /\ MatchesAt(s, ")", e2 + 1)
        THEN <<SubSeq(s, a, e1), SubSeq(s, b, e2)>>
        ELSE <<>>

CoordMatch(s) ==
    LET hits == {i \in 1..Len(s) : CoordMatchAt(s, i) # <<>>}
    IN  IF hits = {} THEN <<>>
        ELSE CoordMatchAt(s, CHOOSE i \in hits : \A j \in hits : i <= j)

\* /\[(\d+)x(\d+)\]/ tried at position i
SizeMatchAt(s, i) ==
    LET a  == i + 1
        e1 == DigitsEnd(s, a)
        b  == e1 + 2
        e2 == DigitsEnd(s, b)
    IN  IF /\ MatchesAt(s, "[", i)
           /\ e1 >= a /\ MatchesAt(s, "x", e1 + 1)
           /\ e2 >= b /\ MatchesAt(s, "]", e2 + 1)
        THEN <<SubSeq(s, a, e1), SubSeq(s, b, e2)>>
        ELSE <<>>

SizeMatch(s) ==
    LET hits == {i \in 1..Len(s) : SizeMatchAt(s, i) # <<>>}
    IN  IF hits = {} THEN <<>>
        ELSE SizeMatchAt(s, CHOOSE i \in hits : \A j \in hits : i <= j)

\* m?.[1] ?? fallback, for a match m given as <<capture>> or <<>>
OrElse(m, fallback) == IF m = <<>> THEN fallback ELSE m[1]

\* centerX / centerY of the desktop parser: Math.floor(x + w / 2), x and w integers >= 0
DesktopCenter(x, w) == FloorHalf(2 * x + w)

\* a line counts only when it carries a class tag
IsElementLineWithClass(trimmed) ==
    ClassMatch(trimmed) # <<>>

\* the three signals of an element line: class tag, text attribute, coordinate marker
IsElementLine(trimmed) ==
    ~(ClassMatch(trimmed) = <<>> /\ AttrMatch(trimmed, "text") = <<>> /\ CoordMatch(trimmed) = <<>>)

\* the UiElement literal pushed for one line
LineElement(trimmed, index) ==
    LET classMatch == ClassMatch(trimmed)
        textMatch  == AttrMatch(trimmed, "text")
        labelMatch == AttrMatch(trimmed, "label")
        valueMatch == AttrMatch(trimmed, "value")
        idMatch    == AttrMatch(trimmed, "id")
        coordMatch == CoordMatch(trimmed)
        sizeMatch  == SizeMatch(trimmed)
        roleMatch  == AttrMatch(trimmed, "role")
        className  == OrElse(classMatch, "")
        text       == OrElse(textMatch, OrElse(labelMatch, OrElse(valueMatch, "")))
        x          == IF coordMatch # <<>> THEN ParseInt(coordMatch[1]) ELSE 0
        y          == IF coordMatch # <<>> THEN ParseInt(coordMatch[2]) ELSE 0
        w          == IF sizeMatch # <<>> THEN ParseInt(sizeMatch[1]) ELSE 100
        h          == IF sizeMatch # <<>> THEN ParseInt(sizeMatch[2]) ELSE 40
        role       == OrElse(roleMatch, "")
        isClickable == \/ Includes(role, "button") \/ Includes(role, "link")
                       \/ Includes(className, "Button") \/ Includes(className, "Link")
                       \/ Includes(className, "MenuItem") \/ Includes(trimmed, "clickable")
        isScrollable == \/ Includes(className, "ScrollView") \/ Includes(className, "List")
                        \/ Includes(role, "scroll")
        isFocused  == Includes(trimmed, "focused")
        isInput    == \/ Includes(className, "TextField") \/ Includes(className, "TextInput")
                      \/ Includes(className, "EditText") \/ Includes(role, "textfield")
                      \/ Includes(role, "textarea")
    IN  [index         |-> index,
         resourceId    |-> OrElse(idMatch, ""),
         className     |-> className,
         packageName   |-> "",
         text          |-> text,
         contentDesc   |-> "",
         checkable     |-> FALSE,
         checked       |-> FALSE,
         clickable     |-> isClickable,
         enabled       |-> ~Includes(trimmed, "disabled"),
         focusable     |-> isClickable \/ isInput,
         focused       |-> isFocused,
         scrollable    |-> isScrollable,
         longClickable |-> FALSE,
         password      |-> Includes(className, "SecureTextField") \/ Includes(className, "Password"),
         selected      |-> Includes(trimmed, "selected"),
         bounds        |-> [x1 |-> x, y1 |-> y, x2 |-> x + w, y2 |-> y + h],
         centerX       |-> DesktopCenter(x, w),
         centerY       |-> DesktopCenter(y, h),
         width         |-> w,
         height        |-> h]

\* the for loop of desktopHierarchyToUiElements over lines[k..]
RECURSIVE LineLoop(_, _, _, _)
LineLoop(lines, k, index, elems) ==
    IF k > Len(lines) THEN elems
    ELSE LET trimmed == Trim(lines[k])
         IN  IF trimmed = "" \/ MatchesAt(trimmed, RuleChar, 1) \/ MatchesAt(trimmed, "=", 1)
             THEN LineLoop(lines, k + 1, index, elems)
             ELSE IF ~IsElementLine(trimmed)
             THEN LineLoop(lines, k + 1, index, elems)
             ELSE LineLoop(lines, k + 1, index + 1, Append(elems, LineElement(trimmed, index)))

desktopHierarchyToUiElements(s) == LineLoop(Split(s, "\n"), 1, 0, <<>>)

(***************************************************************************)
(* findBestMatch: the fuzzy matcher                                        *)
(***************************************************************************)

\* the null a JavaScript function returns
NULL == [null |-> TRUE]

\* a call of a function that takes nothing besides the elements or the dump
NoArgs == [none |-> TRUE]

\* no device is attached: the functions of ui-parser.ts are called on their own
NoDevice == [none |-> TRUE]

\* getShortId: "" for an empty id, else the piece after the last ":id/"
getShortId(resourceId) ==
    IF resourceId = "" THEN ""
    ELSE LET parts == Split(resourceId, ":id/") IN parts[Len(parts)]

\* description.toLowerCase().trim()
NormalizedDescription(d) == Trim(ToLowerCase(d))

\* desc.split(" ").some(word => field.includes(word) && word.length > 2)
SomeWordIn(desc, field) ==
    LET words == Split(desc, " ")
    IN  \E k \in 1..Len(words) : Includes(field, words[k]) /\ Len(words[k]) > 2

\* the filter in front of the scoring: el.enabled && (el.width > 0 && el.height > 0)
ConsideredEvenIfDisabled(el) == el.width > 0 /\ el.height > 0
Considered(el) == el.enabled /\ (el.width > 0 /\ el.height > 0)

\* "if (score > 0 && el.clickable) score += 10"
BoostByTwenty(score, clickable) == IF score > 0 /\ clickable THEN score + 20 ELSE score
Boost(score, clickable) == IF score > 0 /\ clickable THEN score + 10 ELSE score

\* the callback of .map: the if / else-if cascade, then the boost
ScoreElement(el, desc) ==
    LET text        == ToLowerCase(el.text)
        contentDesc == ToLowerCase(el.contentDesc)
        id          == ReplaceAll(ToLowerCase(getShortId(el.resourceId)), "_", " ")
        rule ==
            IF text = desc
              THEN [score |-> 100, reason |-> "exact text match: \"" \o el.text \o "\""]
            ELSE IF contentDesc = desc
              THEN [score |-> 95, reason |-> "exact description: \"" \o el.contentDesc \o "\""]
            ELSE IF Includes(text, desc)
              THEN [score |-> 80, reason |-> "text contains: \"" \o el.text \o "\""]
            ELSE IF Includes(contentDesc, desc)
              THEN [score |-> 75, reason |-> "description contains: \"" \o el.contentDesc \o "\""]
            ELSE IF Includes(id, desc) \/ Includes(id, ReplaceAll(desc, " ", "_"))
              THEN [score |-> 60, reason |-> "ID match: \"" \o el.resourceId \o "\""]
            ELSE IF SomeWordIn(desc, text)
              THEN [score |-> 40, reason |-> "partial text match: \"" \o el.text \o "\""]
            ELSE IF SomeWordIn(desc, contentDesc)
              THEN [score |-> 35, reason |-> "partial description match: \"" \o el.contentDesc \o "\""]
            ELSE [score |-> 0, reason |-> ""]
    IN  [element |-> el, score |-> Boost(rule.score, el.clickable), reason |-> rule.reason]

\* .filter(s => s.score > 0)
KeepAll(scored) == scored
KeepPositive(scored) == SelectSeq(scored, LAMBDA s : s.score > 0)

\* where a stable descending sort puts x among the already sorted: behind every
\* entry whose score is at least x.score
InsertByScore(sorted, x) ==
    LET ahead == {i \in 1..Len(sorted) : sorted[i].score >= x.score}
        n     == Cardinality(ahead)
    IN  SubSeq(sorted, 1, n) \o <<x>> \o SubSeq(sorted, n + 1, Len(sorted))

\* a descending sort that puts a later entry in front of earlier ones of equal score
RECURSIVE SortByScoreLastFirst(_)
SortByScoreLastFirst(scored) ==
    IF scored = <<>> THEN <<>>
    ELSE LET rest == SortByScoreLastFirst(SubSeq(scored, 1, Len(scored) - 1))
             x    == scored[Len(scored)]
             n    == Cardinality({i \in 1..Len(rest) : rest[i].score > x.score})
         IN  SubSeq(rest, 1, n) \o <<x>> \o SubSeq(rest, n + 1, Len(rest))

\* .sort((a, b) => b.score - a.score): Array.prototype.sort is stable
RECURSIVE SortByScore(_)
SortByScore(scored) ==
    IF scored = <<>> THEN <<>>
    ELSE InsertByScore(SortByScore(SubSeq(scored, 1, Len(scored) - 1)), scored[Len(scored)])

\* confidence: Math.min(best.score, 100)
Unclamped(score) == score
Confidence(score) == Min(score, 100)

findBestMatch(elems, d) ==
    LET desc     == NormalizedDescription(d)
        filtered == SelectSeq(elems, Considered)
        mapped   == [i \in 1..Len(filtered) |-> ScoreElement(filtered[i], desc)]
        scored   == SortByScore(KeepPositive(mapped))
    IN  IF Len(scored) = 0 THEN NULL
        ELSE [element    |-> scored[1].element,
              confidence |-> Confidence(scored[1].score),
              reason     |-> scored[1].reason]

(***************************************************************************)
(* Inputs                                                                  *)
(***************************************************************************)

\* number of fragments (markup) or lines (desktop text) an input is made of
MaxNodes == 3

\* number of elements in a sequence given to the matcher
MaxElems == 2

\* pieces of uiautomator dumps: nodes with ordered, inverted, zero, unparseable,
\* negative and missing bounds, a ">" inside a value, a tag that is no node
XmlFragments ==
    { "<node text=\"OK\" clickable=\"true\" enabled=\"true\" bounds=\"[0,1][3,6]\" />",
      "<node text=\"A\" bounds=\"[10,0][5,5]\">",
      "<node text=\"B\" bounds=\"no-bounds-here\">",
      "<node text=\"C\" enabled=\"true\">",
      "<node bounds=\"[-1,0][3,3]\">",
      "<node long-clickable=\"true\" clickable=\"false\" bounds=\"[2,2][2,8]\">",
      "<node text=\"a>b\" bounds=\"[0,0][4,4]\">",
      "<hierarchy rotation=\"0\"></node>" }

\* lines of the desktop companion's dump
DesktopLines ==
    { "<Button> text=\"OK\" @ (100, 200) [80x30]",
      "  <TextField> label=\"Search\" @ (5,7) [3x9] focused",
      "<Label> text=\"Hi\"",
      "@ (1, 2) disabled",
      "<List> role=\"scroll\" @ (0, 0) [0x0]",
      "plain words",
      "=== <Window> ===",
      "~~~~",
      "" }

RECURSIVE XmlInputs(_)
XmlInputs(n) ==
    IF n = 0 THEN {""}
    ELSE XmlInputs(n - 1) \cup {a \o f : a \in XmlInputs(n - 1), f \in XmlFragments}

RECURSIVE DesktopInputs(_)
DesktopInputs(n) ==
    IF n = 0 THEN {""}
    ELSE IF n = 1 THEN DesktopLines
    ELSE DesktopInputs(n - 1) \cup {a \o "\n" \o l : a \in DesktopInputs(n - 1), l \in DesktopLines}

(***************************************************************************)
(* The parsers applied to a raw dump                                       *)
(***************************************************************************)
InitParse ==
    /\ pc = "input"
    /\ input \in XmlInputs(MaxNodes) \cup DesktopInputs(MaxNodes)
    /\ elements = <<>>
    /\ description = ""
    /\ args = NoArgs
    /\ result = NULL
    /\ cachedElements = <<>>
    /\ device = NoDevice

ParseUiHierarchyCall ==
    /\ pc = "input"
    /\ elements' = parseUiHierarchy(input)
    /\ pc' = "parseUiHierarchy"
    /\ UNCHANGED <<input, description, args, result, cachedElements, device>>

DesktopHierarchyCall ==
    /\ pc = "input"
    /\ elements' = desktopHierarchyToUiElements(input)
    /\ pc' = "desktopHierarchyToUiElements"
    /\ UNCHANGED <<input, description, args, result, cachedElements, device>>

NextParse == ParseUiHierarchyCall \/ DesktopHierarchyCall

SpecParse == InitParse /\ [][NextParse]_vars

(***************************************************************************)
(* The matcher applied to an element sequence                              *)
(***************************************************************************)

\* a UiElement as the markup parser builds it, from the attributes the matcher reads
UiElement(text, contentDesc, resourceId, clickable, enabled, bounds) ==
    [index         |-> 0,
     resourceId    |-> resourceId,
     className     |-> "android.widget.TextView",
     packageName   |-> "com.app",
     text          |-> text,
     contentDesc   |-> contentDesc,
     checkable     |-> FALSE,
     checked       |-> FALSE,
     clickable     |-> clickable,
     enabled       |-> enabled,
     focusable     |-> clickable,
     focused       |-> FALSE,
     scrollable    |-> FALSE,
     longClickable |-> FALSE,
     password      |-> FALSE,
     selected      |-> FALSE,
     bounds        |-> bounds,
     centerX       |-> Center(bounds.x1, bounds.x2),
     centerY       |-> Center(bounds.y1, bounds.y2),
     width         |-> bounds.x2 - bounds.x1,
     height        |-> bounds.y2 - bounds.y1]

Visible  == [x1 |-> 0, y1 |-> 0, x2 |-> 300, y2 |-> 40]
ZeroArea == [x1 |-> 7, y1 |-> 9, x2 |-> 7, y2 |-> 49]
Inverted == [x1 |-> 10, y1 |-> 0, x2 |-> 5, y2 |-> 5]

\* elements on a screen around an "OK" button
ElementPool ==
    { UiElement("OK", "", "", FALSE, TRUE, Visible),
      UiElement("OK", "", "", TRUE, TRUE, Visible),
      UiElement("OK", "", "", TRUE, FALSE, Visible),
      UiElement("OK", "", "", TRUE, TRUE, ZeroArea),
      UiElement("OK", "", "", TRUE, TRUE, Inverted),
      UiElement("", "Ok", "", FALSE, TRUE, Visible),
      UiElement("", "Ok", "", TRUE, TRUE, Visible),
      UiElement("ok now", "", "", FALSE, TRUE, Visible),
      UiElement("ok now", "Ok", "", TRUE, TRUE, Visible),
      UiElement("", "tap ok", "", TRUE, TRUE, Visible),
      UiElement("", "tap ok", "com.app:id/btn_ok", FALSE, TRUE, Visible),
      UiElement("", "", "com.app:id/btn_ok", FALSE, TRUE, Visible),
      UiElement(" ok ", "", "", TRUE, TRUE, Visible),
      UiElement("Cancel", "", "com.app:id/cancel", TRUE, TRUE, Visible) }

Descriptions ==
    { "OK", " Ok ", "btn ok", "btn_ok", "tap now", "is ok", "xyz", "", " " }

\* index: index++ of the parser: the i-th element of a sequence has index i - 1
Indexed(seq) == [i \in 1..Len(seq) |-> [seq[i] EXCEPT !.index = i - 1]]

RECURSIVE ElementSeqs(_)
ElementSeqs(n) ==
    IF n = 0 THEN {<<>>}
    ELSE ElementSeqs(n - 1) \cup
         {Indexed(Append(s, e)) : s \in {t \in ElementSeqs(n - 1) : Len(t) = n - 1}, e \in ElementPool}

InitMatch ==
    /\ pc = "input"
    /\ input = ""
    /\ elements \in ElementSeqs(MaxElems)
    /\ description = ""
    /\ args = NoArgs
    /\ result = NULL
    /\ cachedElements = <<>>
    /\ device = NoDevice

FindBestMatchCall ==
    /\ pc = "input"
    /\ \E d \in Descriptions :
          /\ description' = d
          /\ result' = findBestMatch(elements, d)
    /\ pc' = "findBestMatch"
    /\ UNCHANGED <<input, elements, args, cachedElements, device>>

NextMatch == FindBestMatchCall

SpecMatch == InitMatch /\ [][NextMatch]_vars

(***************************************************************************)
(* Properties of findBestMatch, checked under SpecMatch                    *)
(***************************************************************************)
Matched == pc = "findBestMatch"

IsVisible(el) == el.width > 0 /\ el.height > 0

\* the rule table of the matcher as the specification words it: the score of the
\* first rule, in priority order, that el satisfies for description d (0 for none)
ClaimedRuleScore(el, d) ==
    LET desc  == Trim(ToLowerCase(d))
        text  == ToLowerCase(el.text)
        cd    == ToLowerCase(el.contentDesc)
        id    == ReplaceAll(ToLowerCase(getShortId(el.resourceId)), "_", " ")
        words == {w \in {Split(desc, " ")[k] : k \in 1..Len(Split(desc, " "))} : Len(w) > 2}
    IN  IF text = desc THEN 100
        ELSE IF cd = desc THEN 95
        ELSE IF Includes(text, desc) THEN 80
        ELSE IF Includes(cd, desc) THEN 75
        ELSE IF Includes(id, desc) THEN 60
        ELSE IF \E w \in words : Includes(text, w) THEN 40
        ELSE IF \E w \in words : Includes(cd, w) THEN 35
        ELSE 0

\* rule score plus the clickable bonus, before clamping
ClaimedFinalScore(el, d) ==
    LET s == ClaimedRuleScore(el, d)
    IN  IF s > 0 /\ el.clickable THEN s + 10 ELSE s

\* indices of the elements whose text equals the description, case-insensitively
ExactTextIndices ==
    {i \in 1..Len(elements) : ToLowerCase(elements[i].text) = ToLowerCase(description)}

\* C1 (as claimed): when exactly one element has text equal to the description
\* (case-insensitively) and it is enabled and visible, findBestMatch returns that
\* element, whatever the other elements look like.  Stated here for descriptions
\* that are not empty and carry no surrounding white space.
C1_UniqueExactTextIsReturned ==
    (Matched /\ description # "" /\ Trim(description) = description) =>
        \A i \in ExactTextIndices :
            (ExactTextIndices = {i} /\ elements[i].enabled /\ IsVisible(elements[i]))
                => (result # NULL /\ result.element = elements[i])

\* indices of the elements whose text equals the trimmed description, case-insensitively
ExactNormalizedTextIndices ==
    {i \in 1..Len(elements) : ToLowerCase(elements[i].text) = Trim(ToLowerCase(description))}

\* indices of the enabled, visible, clickable elements whose content description
\* equals the trimmed description, case-insensitively
ClickableTwinIndices ==
    {j \in 1..Len(elements) :
        /\ elements[j].enabled /\ IsVisible(elements[j]) /\ elements[j].clickable
        /\ ToLowerCase(elements[j].contentDesc) = Trim(ToLowerCase(description))}

\* C1 (amended): when exactly one element has text equal to the trimmed
\* description (case-insensitively) and it is enabled and visible, findBestMatch
\* returns that element, unless it is not clickable and an enabled, visible,
\* clickable element has content description equal to the trimmed description:
\* then the first such element is returned.
C1_UniqueExactTextOrClickableTwin ==
    Matched =>
        \A i \in ExactNormalizedTextIndices :
            (ExactNormalizedTextIndices = {i} /\ elements[i].enabled /\ IsVisible(elements[i]))
                => /\ result # NULL
                   /\ result.element =
                        IF ~elements[i].clickable /\ ClickableTwinIndices # {}
                        THEN elements[CHOOSE j \in ClickableTwinIndices :
                                         \A k \in ClickableTwinIndices : j <= k]
                        ELSE elements[i]

\* C1 witness: the unique exact text match is returned although another element,
\* in front of it, is clickable and contains the description in its text
C1_Witness ==
    /\ Matched
    /\ result # NULL
    /\ ExactNormalizedTextIndices = {2}
    /\ result.element = elements[2]
    /\ ~elements[2].clickable
    /\ elements[1].enabled /\ elements[1].clickable
    /\ ClaimedRuleScore(elements[1], description) = 80

\* C2: a non-null result names an enabled element of positive width and height;
\* when every element that textually matches the description is disabled or has
\* zero area, the result is null.
C2_OnlyEnabledVisibleReturned ==
    Matched =>
        /\ result # NULL =>
              (result.element.enabled /\ result.element.width > 0 /\ result.element.height > 0)
        /\ (\A i \in 1..Len(elements) :
                ClaimedRuleScore(elements[i], description) > 0
                    => (~elements[i].enabled \/ ~IsVisible(elements[i])))
              => result = NULL

\* C2 witness: an exact text match that is disabled, and null returned
C2_Witness ==
    /\ Matched
    /\ result = NULL
    /\ \E i \in ExactTextIndices : ~elements[i].enabled /\ IsVisible(elements[i])

\* no text, content description or resource id (short, raw or deslugged) of any
\* element contains the description or one of its space-separated words
ZeroOverlap ==
    LET d      == ToLowerCase(description)
        pieces == {d} \cup {Split(d, " ")[k] : k \in 1..Len(Split(d, " "))}
        Fields(el) == { ToLowerCase(el.text), ToLowerCase(el.contentDesc),
                        ToLowerCase(getShortId(el.resourceId)),
                        ReplaceAll(ToLowerCase(getShortId(el.resourceId)), "_", " ") }
    IN  \A i \in 1..Len(elements) : \A f \in Fields(elements[i]) : \A w \in pieces :
            ~Includes(f, w)

\* C3: a description with zero textual overlap with every element gives null, and
\* null is returned exactly when no enabled, visible element scores above 0.
C3_NullIffNothingScores ==
    Matched =>
        /\ ZeroOverlap => result = NULL
        /\ result = NULL <=>
              \A i \in 1..Len(elements) :
                  (elements[i].enabled /\ IsVisible(elements[i]))
                      => ClaimedFinalScore(elements[i], description) <= 0

\* C3 witness: enabled, visible elements, none overlapping the description
C3_Witness ==
    /\ Matched
    /\ Len(elements) >= 2
    /\ \A i \in 1..Len(elements) : elements[i].enabled /\ IsVisible(elements[i])
    /\ ZeroOverlap
    /\ result = NULL

\* C4: the confidence is min(100, s + b): s the score of the first rule of the
\* table the returned element satisfies, b = 10 for a clickable element and 0
\* otherwise; it is an integer between 35 and 100.
C4_ConfidenceIsClampedRulePlusBonus ==
    (Matched /\ result # NULL) =>
        LET s == ClaimedRuleScore(result.element, description)
            b == IF result.element.clickable THEN 10 ELSE 0
        IN  /\ s \in {100, 95, 80, 75, 60, 40, 35}
            /\ result.confidence = Min(100, s + b)
            /\ result.confidence \in 35..100

\* C4 witness: a clickable exact content-description match, 95 + 10 clamped to 100
C4_Witness ==
    /\ Matched
    /\ result # NULL
    /\ result.element.clickable
    /\ ClaimedRuleScore(result.element, description) = 95
    /\ result.confidence = 100

\* indices of the enabled, visible elements
ConsideredIndices ==
    {i \in 1..Len(elements) : elements[i].enabled /\ IsVisible(elements[i])}

\* C5: the returned element has the maximal final score (rule score plus bonus,
\* before clamping) among the enabled, visible elements, and is the first in
\* sequence order among those of maximal final score.
C5_FirstOfMaximalScore ==
    (Matched /\ result # NULL) =>
        \E k \in ConsideredIndices :
            /\ result.element = elements[k]
            /\ \A j \in ConsideredIndices :
                  /\ ClaimedFinalScore(elements[j], description)
                        <= ClaimedFinalScore(elements[k], description)
                  /\ ClaimedFinalScore(elements[j], description)
                        = ClaimedFinalScore(elements[k], description) => k <= j

\* C5 witness: two candidates tie on the maximal final score, the first is returned
C5_Witness ==
    /\ Matched
    /\ result # NULL
    /\ \E k, j \in ConsideredIndices :
          /\ k < j
          /\ result.element = elements[k]
          /\ ClaimedFinalScore(elements[j], description)
                = ClaimedFinalScore(elements[k], description)
          /\ ClaimedFinalScore(elements[k], description) > 100

\* the short resource id contains the description, written with underscores as in
\* the id or with spaces in their place
ShortIdContainsDescription(el, d) ==
    LET desc == Trim(ToLowerCase(d))
        sid  == ToLowerCase(getShortId(el.resourceId))
    IN  Includes(sid, desc) \/ Includes(sid, ReplaceAll(desc, " ", "_"))

\* C6 (as claimed): an enabled, visible element whose short resource id contains
\* the description, in underscore form or in space form, is a candidate with rule
\* score 60, provided no text or content-description rule of higher priority
\* applies to it; alone in the sequence it is the element returned.
C6_IdMatchInEitherForm ==
    Matched =>
        \A i \in ConsideredIndices :
            LET el == elements[i]
                sc == ScoreElement(el, NormalizedDescription(description))
            IN  ( /\ ShortIdContainsDescription(el, description)
                  /\ ~Includes(ToLowerCase(el.text), NormalizedDescription(description))
                  /\ ~Includes(ToLowerCase(el.contentDesc), NormalizedDescription(description)) )
                => /\ sc.score = (IF el.clickable THEN 70 ELSE 60)
                   /\ Len(elements) = 1 => (result # NULL /\ result.element = el)

(***************************************************************************)
(* Properties of the parsers, checked under SpecParse                      *)
(***************************************************************************)
Parsed == pc \in {"parseUiHierarchy", "desktopHierarchyToUiElements"}

\* C7: every element emitted by either parser has centerX = floor((x1+x2)/2),
\* centerY = floor((y1+y2)/2), width = x2-x1 and height = y2-y1 for its own bounds.
C7_DerivedFieldsMatchBounds ==
    Parsed =>
        \A i \in 1..Len(elements) :
            LET e == elements[i]
            IN  /\ e.centerX = (e.bounds.x1 + e.bounds.x2) \div 2
                /\ e.centerY = (e.bounds.y1 + e.bounds.y2) \div 2
                /\ e.width = e.bounds.x2 - e.bounds.x1
                /\ e.height = e.bounds.y2 - e.bounds.y1

\* C7 witness: an element away from the origin whose x1 + x2 and y1 + y2 are odd,
\* so that both centres are rounded down
C7_Witness ==
    /\ Parsed
    /\ \E i \in 1..Len(elements) :
          /\ (elements[i].bounds.x1 + elements[i].bounds.x2) % 2 = 1
          /\ (elements[i].bounds.y1 + elements[i].bounds.y2) % 2 = 1
          /\ elements[i].bounds.x1 > 0

\* C8 (as claimed): every element emitted by the parsers has x2 >= x1 and y2 >= y1.
C8_BoundsOrdered ==
    Parsed =>
        \A i \in 1..Len(elements) :
            /\ elements[i].bounds.x2 >= elements[i].bounds.x1
            /\ elements[i].bounds.y2 >= elements[i].bounds.y1

\* the markup nodes of the input pool that carry no parseable bounds attribute
UnparseableNodes ==
    {f \in XmlFragments :
        /\ MatchesAt(f, "<node", 1)
        /\ \A i \in 1..Len(f) : BoundsMatchAt(f, i) = <<>>}

\* the input with the Len(f) characters at position p cut out
Without(s, p, f) == SubSeq(s, 1, p - 1) \o SubSeq(s, p + Len(f), Len(s))

\* C9: the i-th element returned has index i (0-based); a node without parseable
\* bounds is skipped without consuming an index and without changing which other
\* nodes are emitted or their order: the markup with that node removed parses to
\* the same sequence.
C9_SequentialIndices ==
    /\ Parsed => \A i \in 1..Len(elements) : elements[i].index = i - 1
    /\ pc = "parseUiHierarchy" =>
          \A f \in UnparseableNodes : \A p \in 1..Len(input) :
              MatchesAt(input, f, p) => elements = parseUiHierarchy(Without(input, p, f))

\* C9 witness: a node without parseable bounds between two emitted nodes
C9_Witness ==
    /\ pc = "parseUiHierarchy"
    /\ Len(elements) = 2
    /\ \E f \in UnparseableNodes : \E p \in 2..Len(input) :
          /\ MatchesAt(input, f, p)
          /\ p + Len(f) <= Len(input)
          /\ Len(parseUiHierarchy(SubSeq(input, 1, p - 1))) = 1

\* no match of the bounds pattern anywhere in the input
NoParseableBounds == \A i \in 1..Len(input) : BoundsMatchAt(input, i) = <<>>

\* none of the three signals of an element line anywhere in the input
NoLineSignal ==
    ~Includes(input, "<") /\ ~Includes(input, "text=\"") /\ ~Includes(input, "@ (")

\* C10: the markup parser returns the empty sequence for the empty string, for
\* input without node tags and for input whose nodes carry no parseable bounds;
\* the desktop parser returns it for the empty string and for input none of whose
\* lines carries a class tag, a text attribute or a coordinate marker.
C10_EmptyForInputWithoutElements ==
    /\ (pc = "parseUiHierarchy" /\ (input = "" \/ ~Includes(input, "<node") \/ NoParseableBounds))
          => elements = <<>>
    /\ (pc = "desktopHierarchyToUiElements" /\ (input = "" \/ NoLineSignal))
          => elements = <<>>

\* C10 witness: markup made of nodes only, none with parseable bounds
C10_Witness ==
    /\ pc = "parseUiHierarchy"
    /\ Len(input) > 0
    /\ MatchesAt(input, "<node", 1)
    /\ NoParseableBounds
    /\ elements = <<>>

(***************************************************************************)
(* Element queries: findClickable, findElements                            *)
(***************************************************************************)
\* an optional value (criteria.text?: string): <<>> is undefined, <<v>> is v
Undefined == <<>>
Some(v) == <<v>>
IsDefined(o) == o # Undefined
\* if (criteria.text && ...): an undefined or empty string is falsy
TruthyString(o) == IsDefined(o) /\ o[1] # ""

findClickableAndEnabled(elems) ==
    SelectSeq(elems, LAMBDA el : el.clickable /\ el.enabled)

findClickable(elems) ==
    SelectSeq(elems, LAMBDA el : el.clickable)

\* the filter callback of findElements: each if returns false, the end returns true
CriteriaCallbackWidthOnly(el, criteria) ==
    /\ ~ ( /\ TruthyString(criteria.text)
           /\ ~ Includes(ToLowerCase(el.text), ToLowerCase(criteria.text[1]))
           /\ ~ Includes(ToLowerCase(el.contentDesc), ToLowerCase(criteria.text[1])) )
    /\ ~ (TruthyString(criteria.resourceId) /\ ~ Includes(el.resourceId, criteria.resourceId[1]))
    /\ ~ (TruthyString(criteria.className) /\ ~ Includes(el.className, criteria.className[1]))
    /\ ~ (IsDefined(criteria.clickable) /\ el.clickable # criteria.clickable[1])
    /\ ~ (IsDefined(criteria.enabled) /\ el.enabled # criteria.enabled[1])
    /\ IsDefined(criteria.visible) => ((el.width > 0) = criteria.visible[1])

CriteriaCallback(el, criteria) ==
    /\ ~ ( /\ TruthyString(criteria.text)
           /\ ~ Includes(ToLowerCase(el.text), ToLowerCase(criteria.text[1]))
           /\ ~ Includes(ToLowerCase(el.contentDesc), ToLowerCase(criteria.text[1])) )
    /\ ~ (TruthyString(criteria.resourceId) /\ ~ Includes(el.resourceId, criteria.resourceId[1]))
    /\ ~ (TruthyString(criteria.className) /\ ~ Includes(el.className, criteria.className[1]))
    /\ ~ (IsDefined(criteria.clickable) /\ el.clickable # criteria.clickable[1])
    /\ ~ (IsDefined(criteria.enabled) /\ el.enabled # criteria.enabled[1])
    /\ IsDefined(criteria.visible) =>
          LET isVisible == el.width > 0 /\ el.height > 0
          IN  isVisible = criteria.visible[1]

findElements(elems, criteria) ==
    SelectSeq(elems, LAMBDA el : CriteriaCallback(el, criteria))

(***************************************************************************)
(* detectScreenTitle, detectDialog, detectNavigation                       *)
(***************************************************************************)
\* a.split(sep).pop()
LastOf(parts) == parts[Len(parts)]

\* parts.join(sep)
RECURSIVE Join(_, _)
Join(parts, sep) ==
    IF Len(parts) = 0 THEN ""
    ELSE IF Len(parts) = 1 THEN parts[1]
    ELSE parts[1] \o sep \o Join(Tail(parts), sep)

\* classes.some(c => className.includes(c))
IncludesSome(className, classes) == \E c \in classes : Includes(className, c)

\* the first index of a for-of loop or of Array.prototype.find that is in hits
FirstOf(hits) == CHOOSE i \in hits : \A j \in hits : i <= j

\* the top left corner of child lies within the bounds of el
CornerWithin(child, el) ==
    /\ child.bounds.y1 >= el.bounds.y1
    /\ child.bounds.y1 <= el.bounds.y2
    /\ child.bounds.x1 >= el.bounds.x1
    /\ child.bounds.x1 <= el.bounds.x2

\* child lies within the bounds of el
Within(child, el) ==
    /\ child.bounds.y1 >= el.bounds.y1
    /\ child.bounds.y2 <= el.bounds.y2
    /\ child.bounds.x1 >= el.bounds.x1
    /\ child.bounds.x2 <= el.bounds.x2

\* the first element that is a toolbar with text or a top text
detectScreenTitleInOneLoop(elems) ==
    LET titles == {i \in 1..Len(elems) :
                      /\ elems[i].text # ""
                      /\ \/ IncludesSome(elems[i].className, {"Toolbar", "ActionBar", "NavigationBar", "Header"})
                         \/ /\ ~ elems[i].clickable
                            /\ elems[i].bounds.y1 < 200
                            /\ elems[i].width > 200
                            /\ IncludesSome(elems[i].className, {"TextView", "StaticText"})}
    IN  IF titles # {} THEN Some(elems[FirstOf(titles)].text) ELSE Undefined

\* string | undefined
detectScreenTitle(elems) ==
    LET toolbars == {i \in 1..Len(elems) :
                        /\ IncludesSome(elems[i].className, {"Toolbar", "ActionBar", "NavigationBar", "Header"})
                        /\ elems[i].text # ""}
        topTexts == {i \in 1..Len(elems) :
                        /\ elems[i].text # ""
                        /\ ~ elems[i].clickable
                        /\ elems[i].bounds.y1 < 200
                        /\ elems[i].width > 200
                        /\ IncludesSome(elems[i].className, {"TextView", "StaticText"})}
    IN  IF toolbars # {} THEN Some(elems[FirstOf(toolbars)].text)
        ELSE IF topTexts # {} THEN Some(elems[FirstOf(topTexts)].text)
        ELSE Undefined

\* the area of the first element
ScreenAreaOfFirst(elems) ==
    IF Len(elems) = 0 THEN 0 ELSE elems[1].width * elems[1].height

\* Math.max(...elements.map(el => el.width * el.height)), 0 for no elements
ScreenArea(elems) ==
    IF Len(elems) = 0 THEN 0
    ELSE LET areas == {elems[i].width * elems[i].height : i \in 1..Len(elems)}
         IN  CHOOSE a \in areas : \A b \in areas : b <= a

\* { hasDialog, dialogTitle? }. The products screenArea * 0.3 and
\* screenArea * 0.85 are compared as rationals: the doubles order integer
\* areas the same way for every screenArea up to 3,000,000.
detectDialog(elems) ==
    LET dialogs == {i \in 1..Len(elems) :
                       IncludesSome(elems[i].className,
                                    {"AlertDialog", "Dialog", "BottomSheet", "Modal", "Popup", "Alert"})}
        DialogTitles(el) == {j \in 1..Len(elems) :
                                /\ elems[j].text # ""
                                /\ Within(elems[j], el)
                                /\ IncludesSome(elems[j].className, {"TextView", "StaticText"})}
        screenArea == ScreenArea(elems)
        OverlayTitles(el) == {j \in 1..Len(elems) :
                                 /\ elems[j].text # ""
                                 /\ ~ elems[j].clickable
                                 /\ Within(elems[j], el)}
        overlays == {i \in 1..Len(elems) :
                        /\ IncludesSome(elems[i].className, {"FrameLayout", "View"})
                        /\ 10 * (elems[i].width * elems[i].height) > 3 * screenArea
                        /\ 100 * (elems[i].width * elems[i].height) < 85 * screenArea
                        /\ elems[i].bounds.y1 > 100
                        /\ elems[i].bounds.x1 > 20
                        /\ OverlayTitles(elems[i]) # {}}
    IN  IF dialogs # {}
        THEN LET el == elems[FirstOf(dialogs)]
             IN  [hasDialog   |-> TRUE,
                  dialogTitle |-> IF DialogTitles(el) # {}
                                  THEN Some(elems[FirstOf(DialogTitles(el))].text)
                                  ELSE Undefined]
        ELSE IF overlays # {}
        THEN LET el == elems[FirstOf(overlays)]
             IN  [hasDialog   |-> TRUE,
                  dialogTitle |-> Some(elems[FirstOf(OverlayTitles(el))].text)]
        ELSE [hasDialog |-> FALSE, dialogTitle |-> Undefined]

\* one pass of the loop of detectNavigation over el, from the flags in nav
NavStep(nav, el) ==
    LET desc == ToLowerCase(el.contentDesc)
        id   == ToLowerCase(el.resourceId)
        back == \/ Includes(desc, "back") \/ Includes(desc, "navigate up")
                \/ Includes(id, "back") \/ Includes(id, "navigate_up")
                \/ desc = "back" \/ Includes(el.className, "BackButton")
        menu == \/ Includes(desc, "menu") \/ Includes(desc, "more options")
                \/ Includes(desc, "overflow") \/ Includes(id, "menu")
                \/ Includes(id, "overflow") \/ Includes(id, "hamburger")
        tabs == \/ IncludesSome(el.className, {"TabLayout", "TabBar", "BottomNavigation", "TabView"})
                \/ Includes(id, "tab_layout") \/ Includes(id, "bottom_nav") \/ Includes(id, "tab_bar")
        hasTabs     == nav.hasTabs \/ tabs
        selectedTab == el.selected /\ (Includes(el.className, "Tab") \/ Includes(id, "tab")) /\ el.text # ""
    IN  [hasBack    |-> nav.hasBack \/ back,
         hasMenu    |-> nav.hasMenu \/ menu,
         hasTabs    |-> hasTabs \/ selectedTab,
         currentTab |-> IF (el.selected /\ hasTabs /\ el.text # "") \/ selectedTab
                        THEN Some(el.text) ELSE nav.currentTab]

RECURSIVE NavLoop(_, _, _)
NavLoop(elems, k, nav) ==
    IF k > Len(elems) THEN nav ELSE NavLoop(elems, k + 1, NavStep(nav, elems[k]))

detectNavigation(elems) ==
    NavLoop(elems, 1, [hasBack |-> FALSE, hasMenu |-> FALSE, hasTabs |-> FALSE, currentTab |-> Undefined])

(***************************************************************************)
(* analyzeScreen                                                           *)
(***************************************************************************)
\* a || b for strings
OrString(a, b) == IF a # "" THEN a ELSE b

Coordinates(el) == [x |-> el.centerX, y |-> el.centerY]

\* if (el.width <= 0 || el.height <= 0) continue
Skipped(el) == el.width <= 0 \/ el.height <= 0

\* el.text || el.contentDesc || getShortId(el.resourceId) || ""
ButtonLabel(el) == OrString(el.text, OrString(el.contentDesc, getShortId(el.resourceId)))

IsButtonEvenIfDisabled(el) == el.clickable /\ ButtonLabel(el) # ""

IsButton(el) == el.clickable /\ el.enabled /\ ButtonLabel(el) # ""

IsInput(el) ==
    IncludesSome(el.className, {"EditText", "TextInputEditText", "TextField", "TextInput", "SecureTextField"})

IsStaticText(el) ==
    /\ el.text # ""
    /\ ~ el.clickable
    /\ IncludesSome(el.className, {"TextView", "StaticText", "Label"})

VerticalUnlessWider(el) == IF el.height >= el.width THEN "vertical" ELSE "horizontal"

\* isVertical ? "vertical" : "horizontal"
ScrollDirection(el) == IF el.height > el.width THEN "vertical" ELSE "horizontal"

Button(el) == [index |-> el.index, label |-> ButtonLabel(el), coordinates |-> Coordinates(el)]
InputField(el) ==
    [index |-> el.index, hint |-> OrString(el.contentDesc, getShortId(el.resourceId)),
     value |-> el.text, coordinates |-> Coordinates(el)]
StaticText(el) == [content |-> el.text, coordinates |-> Coordinates(el)]
Scrollable(el) == [index |-> el.index, direction |-> ScrollDirection(el), coordinates |-> Coordinates(el)]

Quoted(str) == "\"" \o str \o "\""

\* the pieces of the summary, in the order they are pushed
SummaryParts(activity, screenTitle, dialogInfo, buttons, inputs, scrollable, nav) ==
    LET screenPart ==
            IF TruthyString(activity) THEN <<"Screen: " \o LastOf(Split(activity[1], "."))>>
            ELSE IF IsDefined(screenTitle) THEN <<"Screen: " \o screenTitle[1]>>
            ELSE <<>>
        dialogPart ==
            IF dialogInfo.hasDialog
            THEN <<"Dialog: " \o Quoted(IF IsDefined(dialogInfo.dialogTitle)
                                        THEN dialogInfo.dialogTitle[1] ELSE "untitled")>>
            ELSE <<>>
        firstFive == SubSeq(buttons, 1, Min(5, Len(buttons)))
        buttonPart ==
            IF Len(buttons) > 0
            THEN <<ToString(Len(buttons)) \o " buttons: "
                     \o Join([i \in 1..Len(firstFive) |-> Quoted(firstFive[i].label)], ", ")
                     \o (IF Len(buttons) > 5 THEN "..." ELSE "")>>
            ELSE <<>>
        inputPart ==
            IF Len(inputs) > 0 THEN <<ToString(Len(inputs)) \o " input field(s)">> ELSE <<>>
        scrollPart ==
            IF Len(scrollable) > 0 THEN <<"Scrollable: " \o scrollable[1].direction>> ELSE <<>>
        navParts ==
            (IF nav.hasBack THEN <<"back">> ELSE <<>>) \o
            (IF nav.hasMenu THEN <<"menu">> ELSE <<>>) \o
            (IF nav.hasTabs
             THEN <<"tabs" \o (IF IsDefined(nav.currentTab) THEN "(" \o nav.currentTab[1] \o ")" ELSE "")>>
             ELSE <<>>)
        navPart ==
            IF nav.hasBack \/ nav.hasMenu \/ nav.hasTabs
            THEN <<"Nav: " \o Join(navParts, ", ")>> ELSE <<>>
    IN  screenPart \o dialogPart \o buttonPart \o inputPart \o scrollPart \o navPart

SummaryOfSeveralParts(summaryParts) ==
    IF Len(summaryParts) <= 1 THEN "Empty screen" ELSE Join(summaryParts, " | ")

\* summaryParts.join(" | ") || "Empty screen"
Summary(summaryParts) ==
    OrString(Join(summaryParts, " | "), "Empty screen")

analyzeScreen(elems, activity) ==
    LET shown       == SelectSeq(elems, LAMBDA el : ~ Skipped(el))
        buttonEls   == SelectSeq(shown, IsButton)
        inputEls    == SelectSeq(shown, IsInput)
        textEls     == SelectSeq(shown, IsStaticText)
        scrollEls   == SelectSeq(shown, LAMBDA el : el.scrollable)
        buttons     == [i \in 1..Len(buttonEls) |-> Button(buttonEls[i])]
        inputs      == [i \in 1..Len(inputEls) |-> InputField(inputEls[i])]
        texts       == [i \in 1..Len(textEls) |-> StaticText(textEls[i])]
        scrollable  == [i \in 1..Len(scrollEls) |-> Scrollable(scrollEls[i])]
        screenTitle == detectScreenTitle(elems)
        dialogInfo  == detectDialog(elems)
        nav         == detectNavigation(elems)
        anyNav      == nav.hasBack \/ nav.hasMenu \/ nav.hasTabs
    IN  [activity        |-> activity,
         screenTitle     |-> screenTitle,
         hasDialog       |-> IF dialogInfo.hasDialog THEN Some(TRUE) ELSE Undefined,
         dialogTitle     |-> dialogInfo.dialogTitle,
         navigationState |-> IF anyNav THEN Some(nav) ELSE Undefined,
         buttons         |-> buttons,
         inputs          |-> inputs,
         texts           |-> SubSeq(texts, 1, Min(20, Len(texts))),
         scrollable      |-> scrollable,
         summary         |-> Summary(SummaryParts(activity, screenTitle, dialogInfo,
                                                  buttons, inputs, scrollable, nav))]

(***************************************************************************)
(* formatElement, formatUiTree                                             *)
(***************************************************************************)
\* s.slice(0, n) followed by "..." when s is longer than n
Shortened(str, n) ==
    SubSeq(str, 1, Min(n, Len(str))) \o (IF Len(str) > n THEN "..." ELSE "")

formatElement(el) ==
    LET shortClass == LastOf(Split(el.className, "."))
        flags == (IF el.clickable THEN <<"clickable">> ELSE <<>>) \o
                 (IF el.scrollable THEN <<"scrollable">> ELSE <<>>) \o
                 (IF el.focused THEN <<"focused">> ELSE <<>>) \o
                 (IF el.checked THEN <<"checked">> ELSE <<>>) \o
                 (IF ~ el.enabled THEN <<"disabled">> ELSE <<>>)
        parts == <<"[" \o ToString(el.index) \o "]", "<" \o shortClass \o ">">> \o
                 (IF el.resourceId # ""
                  THEN <<"id=" \o Quoted(LastOf(Split(el.resourceId, ":id/")))>> ELSE <<>>) \o
                 (IF el.text # "" THEN <<"text=" \o Quoted(Shortened(el.text, 50))>> ELSE <<>>) \o
                 (IF el.contentDesc # ""
                  THEN <<"desc=" \o Quoted(Shortened(el.contentDesc, 30))>> ELSE <<>>) \o
                 (IF Len(flags) > 0 THEN <<"(" \o Join(flags, ", ") \o ")">> ELSE <<>>) \o
                 <<"@ (" \o ToString(el.centerX) \o ", " \o ToString(el.centerY) \o ")">>
    IN  Join(parts, " ")

\* the filter of meaningful elements
IsMeaningful(el) ==
    \/ el.text # ""
    \/ el.contentDesc # ""
    \/ el.clickable
    \/ el.scrollable
    \/ el.focusable
    \/ Includes(el.resourceId, ":id/")

\* seq.slice(0, n)
SliceTo(seq, n) ==
    IF n >= 0 THEN SubSeq(seq, 1, Min(n, Len(seq)))
    ELSE SubSeq(seq, 1, IF Len(seq) + n > 0 THEN Len(seq) + n ELSE 0)

\* the elements are cut to maxElements before the filter is applied
TruncateThenFilter(elems, showAll, maxElements) ==
    LET cut == IF Len(elems) > maxElements THEN SliceTo(elems, maxElements) ELSE elems
    IN  IF showAll THEN cut ELSE SelectSeq(cut, IsMeaningful)

FilterThenTruncate(elems, showAll, maxElements) ==
    LET filtered == IF showAll THEN elems ELSE SelectSeq(elems, IsMeaningful)
    IN  IF Len(filtered) > maxElements THEN SliceTo(filtered, maxElements) ELSE filtered

\* const { showAll = false, maxElements = 100 } = options ?? {}
formatUiTree(elems, options) ==
    LET showAll     == IF IsDefined(options.showAll) THEN options.showAll[1] ELSE FALSE
        maxElements == IF IsDefined(options.maxElements) THEN options.maxElements[1] ELSE 100
        filtered    == FilterThenTruncate(elems, showAll, maxElements)
    IN  IF Len(filtered) = 0 THEN "No UI elements found"
        ELSE Join([i \in 1..Len(filtered) |-> formatElement(filtered[i])], "\n")

(***************************************************************************)
(* A screen of widgets handed to the queries, the analysis and the         *)
(* formatter                                                               *)
(***************************************************************************)
Widget(className, text, contentDesc, resourceId, clickable, enabled, scrollable, bounds) ==
    [UiElement(text, contentDesc, resourceId, clickable, enabled, bounds)
        EXCEPT !.className = className, !.scrollable = scrollable]

Tall   == [x1 |-> 0, y1 |-> 40, x2 |-> 300, y2 |-> 600]
Square == [x1 |-> 0, y1 |-> 0, x2 |-> 300, y2 |-> 300]
Flat   == [x1 |-> 0, y1 |-> 9, x2 |-> 300, y2 |-> 9]

ScreenPool ==
    { Widget("android.widget.Button", "OK", "", "com.app:id/btn_ok", TRUE, TRUE, FALSE, Visible),
      Widget("android.widget.Button", "OK", "", "com.app:id/btn_ok", TRUE, FALSE, FALSE, Visible),
      Widget("android.widget.Button", "OK", "", "com.app:id/btn_ok", TRUE, TRUE, FALSE, Flat),
      Widget("android.widget.EditText", "", "Username", "com.app:id/user", TRUE, TRUE, FALSE, Visible),
      Widget("android.widget.TextView", "Welcome", "", "", FALSE, TRUE, FALSE, Visible),
      Widget("android.widget.ScrollView", "", "", "", FALSE, TRUE, TRUE, Tall),
      Widget("androidx.recyclerview.widget.RecyclerView", "", "", "com.app:id/list", FALSE, TRUE, TRUE, ZeroArea),
      Widget("android.widget.HorizontalScrollView", "", "", "", FALSE, TRUE, TRUE, Square),
      Widget("android.widget.FrameLayout", "", "", "", FALSE, TRUE, FALSE, Visible),
      Widget("android.widget.ImageButton", "", "", "com.app:id/back", TRUE, TRUE, FALSE, Visible),
      Widget("android.view.View", "", "", "", TRUE, TRUE, FALSE, Visible),
      Widget("android.app.AlertDialog", "", "", "", FALSE, TRUE, FALSE, Tall) }

RECURSIVE ScreenSeqs(_)
ScreenSeqs(n) ==
    IF n = 0 THEN {<<>>}
    ELSE ScreenSeqs(n - 1) \cup
         {Indexed(Append(s, e)) : s \in {t \in ScreenSeqs(n - 1) : Len(t) = n - 1}, e \in ScreenPool}

Criteria(text, resourceId, className, clickable, enabled, visible) ==
    [text |-> text, resourceId |-> resourceId, className |-> className,
     clickable |-> clickable, enabled |-> enabled, visible |-> visible]

CriteriaPool ==
    { Criteria(Undefined, Undefined, Undefined, Undefined, Undefined, Undefined),
      Criteria(Some("ok"), Undefined, Undefined, Undefined, Undefined, Undefined),
      Criteria(Some("USER"), Undefined, Undefined, Undefined, Undefined, Undefined),
      Criteria(Some(""), Undefined, Undefined, Undefined, Undefined, Undefined),
      Criteria(Undefined, Some("btn"), Undefined, Undefined, Undefined, Undefined),
      Criteria(Undefined, Some(""), Undefined, Undefined, Undefined, Undefined),
      Criteria(Undefined, Undefined, Some("Button"), Undefined, Undefined, Undefined),
      Criteria(Undefined, Undefined, Some("view"), Undefined, Undefined, Undefined),
      Criteria(Undefined, Undefined, Undefined, Some(TRUE), Undefined, Undefined),
      Criteria(Undefined, Undefined, Undefined, Some(FALSE), Undefined, Undefined),
      Criteria(Undefined, Undefined, Undefined, Undefined, Some(TRUE), Undefined),
      Criteria(Undefined, Undefined, Undefined, Undefined, Some(FALSE), Undefined),
      Criteria(Undefined, Undefined, Undefined, Undefined, Undefined, Some(TRUE)),
      Criteria(Undefined, Undefined, Undefined, Undefined, Undefined, Some(FALSE)),
      Criteria(Some("ok"), Undefined, Undefined, Undefined, Some(FALSE), Undefined),
      Criteria(Undefined, Undefined, Undefined, Some(TRUE), Undefined, Some(FALSE)),
      Criteria(Undefined, Undefined, Some("Button"), Some(TRUE), Undefined, Undefined),
      Criteria(Undefined, Some(":id/"), Undefined, Undefined, Undefined, Some(TRUE)),
      Criteria(Undefined, Undefined, Undefined, Some(TRUE), Some(TRUE), Some(TRUE)),
      Criteria(Some("Ok"), Some("btn"), Some("Button"), Some(TRUE), Some(TRUE), Some(TRUE)) }

InitScreen ==
    /\ pc = "input"
    /\ input = ""
    /\ elements \in ScreenSeqs(MaxElems)
    /\ description = ""
    /\ args = NoArgs
    /\ result = NULL
    /\ cachedElements = <<>>
    /\ device = NoDevice

FindClickableCall ==
    /\ pc = "input"
    /\ result' = findClickable(elements)
    /\ pc' = "findClickable"
    /\ UNCHANGED <<input, elements, description, args, cachedElements, device>>

FindElementsCall ==
    /\ pc = "input"
    /\ \E criteria \in CriteriaPool :
          /\ args' = [criteria |-> criteria]
          /\ result' = findElements(elements, criteria)
    /\ pc' = "findElements"
    /\ UNCHANGED <<input, elements, description, cachedElements, device>>

Activities == {Undefined, Some(""), Some("com.app.MainActivity")}

AnalyzeScreenCall ==
    /\ pc = "input"
    /\ \E activity \in Activities :
          /\ args' = [activity |-> activity]
          /\ result' = analyzeScreen(elements, activity)
    /\ pc' = "analyzeScreen"
    /\ UNCHANGED <<input, elements, description, cachedElements, device>>

FormatOptions ==
    [showAll : {Undefined, Some(TRUE)}, maxElements : {Undefined, Some(0), Some(1), Some(2), Some(-1)}]

FormatUiTreeCall ==
    /\ pc = "input"
    /\ \E options \in FormatOptions :
          /\ args' = [options |-> options]
          /\ result' = formatUiTree(elements, options)
    /\ pc' = "formatUiTree"
    /\ UNCHANGED <<input, elements, description, cachedElements, device>>

NextScreen == FindClickableCall \/ FindElementsCall \/ AnalyzeScreenCall \/ FormatUiTreeCall

SpecScreen == InitScreen /\ [][NextScreen]_vars

(***************************************************************************)
(* Claims about the element queries                                        *)
(***************************************************************************)
\* what a criterion asks of an element, when it is supplied
ContainsIgnoringCase(s, sub) == Includes(ToLowerCase(s), ToLowerCase(sub))

Satisfies(el, c) ==
    /\ IsDefined(c.text) =>
          ContainsIgnoringCase(el.text, c.text[1]) \/ ContainsIgnoringCase(el.contentDesc, c.text[1])
    /\ IsDefined(c.resourceId) => Includes(el.resourceId, c.resourceId[1])
    /\ IsDefined(c.className) => Includes(el.className, c.className[1])
    /\ IsDefined(c.clickable) => el.clickable = c.clickable[1]
    /\ IsDefined(c.enabled) => el.enabled = c.enabled[1]
    /\ IsDefined(c.visible) => ((el.width > 0 /\ el.height > 0) = c.visible[1])

NoCriteria == Criteria(Undefined, Undefined, Undefined, Undefined, Undefined, Undefined)

\* C11: findElements returns, in input order, exactly the elements that
\* satisfy every supplied criterion (text: case-insensitive substring of text
\* or content description; resourceId, className: substring; clickable,
\* enabled: equality; visible: (width>0 and height>0) equals the value);
\* omitted criteria are not applied, so no criteria returns the input.
C11_FindElementsIsConjunctiveFilter ==
    pc = "findElements" =>
        /\ result = SelectSeq(elements, LAMBDA el : Satisfies(el, args.criteria))
        /\ args.criteria = NoCriteria => result = elements

\* several criteria at once keep some elements of the screen and drop others,
\* one of them by the visibility criterion alone
C11_Witness ==
    /\ pc = "findElements"
    /\ IsDefined(args.criteria.clickable) /\ IsDefined(args.criteria.visible)
    /\ Len(elements) = 2
    /\ result = <<elements[2]>>
    /\ elements[1].clickable = args.criteria.clickable[1]
    /\ elements[1].width > 0 /\ elements[1].height = 0

\* C12: findClickable returns exactly the elements with clickable=true, in
\* input order, enabled or not: a disabled clickable element is always
\* included, while findBestMatch on the same sequence never returns it.
C12_ClickableRegardlessOfEnabled ==
    pc = "findClickable" =>
        /\ result = SelectSeq(elements, LAMBDA el : el.clickable)
        /\ \A i \in 1..Len(elements) :
              (elements[i].clickable /\ ~ elements[i].enabled) =>
                  /\ \E j \in 1..Len(result) : result[j] = elements[i]
                  /\ \A d \in Descriptions :
                        LET best == findBestMatch(elements, d)
                        IN  best # NULL => best.element # elements[i]

\* a disabled clickable element whose text is the description sits among the
\* clickable elements while the matcher returns nothing for the screen
C12_Witness ==
    /\ pc = "findClickable"
    /\ Len(elements) = 1
    /\ elements[1].clickable /\ ~ elements[1].enabled /\ elements[1].text = "OK"
    /\ result = elements
    /\ findBestMatch(elements, "OK") = NULL

(***************************************************************************)
(* diffUiElements: what changed between two element sequences              *)
(***************************************************************************)
\* `${el.resourceId}|${el.text}|${el.className}`
elementFingerprint(el) ==
    el.resourceId \o "|" \o el.text \o "|" \o el.className

\* new Set(elems.map(elementFingerprint))
FingerprintSet(elems) == {elementFingerprint(elems[i]) : i \in 1..Len(elems)}

\* describeEl inside diffUiElements
describeEl(el) ==
    LET labelOrId  == IF el.contentDesc # "" THEN el.contentDesc ELSE getShortId(el.resourceId)
        label      == IF el.text # "" THEN el.text ELSE labelOrId
        shortClass == LastOf(Split(el.className, "."))
    IN  IF label # ""
        THEN IF el.clickable
             THEN "\"" \o label \o "\" " \o ToLowerCase(shortClass)
             ELSE "\"" \o label \o "\""
        ELSE shortClass

\* elems.slice(0, 5).map(describeEl).filter(s => s.length > 0)
DescribeFirstFive(elems) ==
    LET firstFive == SubSeq(elems, 1, Min(5, Len(elems)))
    IN  SelectSeq([i \in 1..Len(firstFive) |-> describeEl(firstFive[i])], LAMBDA d : Len(d) > 0)

\* the threshold is reached, not exceeded
RatioAtLeastSixTenths(changedCount, totalUnique) ==
    10 * changedCount >= 6 * totalUnique

\* (changedCount / totalUnique) > 0.6 for integers changedCount >= 0 and
\* totalUnique > 0. The quotient of a division of doubles is correctly
\* rounded, so a ratio of exactly 3/5 is the double 0.6 itself and a larger
\* ratio of small integers stays larger: the comparison is that of the rationals.
RatioExceedsSixTenths(changedCount, totalUnique) ==
    10 * changedCount > 6 * totalUnique

\* elements are compared with the element at the same position of the other side
diffUiElementsByPosition(before, after) ==
    LET DiffersAt(el, other) ==
            \/ el.index + 1 > Len(other)
            \/ elementFingerprint(other[Min(el.index + 1, Len(other))]) # elementFingerprint(el)
        appearedElements    == SelectSeq(after, LAMBDA el : DiffersAt(el, before))
        disappearedElements == SelectSeq(before, LAMBDA el : DiffersAt(el, after))
        totalUnique         == Cardinality(FingerprintSet(before) \cup FingerprintSet(after))
        changedCount        == Len(appearedElements) + Len(disappearedElements)
    IN  [screenChanged |-> totalUnique > 0 /\ RatioExceedsSixTenths(changedCount, totalUnique),
         appeared      |-> DescribeFirstFive(appearedElements),
         disappeared   |-> DescribeFirstFive(disappearedElements),
         beforeCount   |-> Len(before),
         afterCount    |-> Len(after)]

diffUiElements(before, after) ==
    LET beforeSet           == FingerprintSet(before)
        afterSet            == FingerprintSet(after)
        appearedElements    == SelectSeq(after, LAMBDA el : elementFingerprint(el) \notin beforeSet)
        disappearedElements == SelectSeq(before, LAMBDA el : elementFingerprint(el) \notin afterSet)
        totalUnique         == Cardinality(beforeSet \cup afterSet)
        changedCount        == Len(appearedElements) + Len(disappearedElements)
    IN  [screenChanged |-> totalUnique > 0 /\ RatioExceedsSixTenths(changedCount, totalUnique),
         appeared      |-> DescribeFirstFive(appearedElements),
         disappeared   |-> DescribeFirstFive(disappearedElements),
         beforeCount   |-> Len(before),
         afterCount    |-> Len(after)]

MaxDiffLen == 4

\* the widgets of two snapshots of a screen: a moved copy of the welcome text,
\* and two web-view nodes whose ids and texts contain the separator
DiffBase ==
    << Widget("android.widget.Button", "Login", "", "com.app:id/login", TRUE, TRUE, FALSE, Visible),
       Widget("android.widget.TextView", "Welcome", "", "", FALSE, TRUE, FALSE, Visible),
       Widget("android.view.View", "", "", "", FALSE, TRUE, FALSE, Visible),
       Widget("android.widget.ImageView", "", "Logo", "", FALSE, TRUE, FALSE, Square),
       Widget("android.view.View", "1", "", "tab|home", FALSE, TRUE, FALSE, Visible),
       Widget("android.view.View", "home|1", "", "tab", FALSE, TRUE, FALSE, Visible),
       Widget("android.widget.TextView", "Welcome", "", "", FALSE, TRUE, FALSE, Tall) >>

\* the widgets of DiffBase at the positions in S, in the order of DiffBase
Snapshot(S) ==
    LET positions == SelectSeq([i \in 1..Len(DiffBase) |-> i], LAMBDA i : i \in S)
    IN  Indexed([k \in 1..Len(positions) |-> DiffBase[positions[k]]])

Reversed(seq) == Indexed([i \in 1..Len(seq) |-> seq[Len(seq) + 1 - i]])

Snapshots(n) == {Snapshot(S) : S \in {T \in SUBSET (1..Len(DiffBase)) : Cardinality(T) <= n}}

InitDiff ==
    /\ pc = "input"
    /\ input = ""
    /\ \E before \in Snapshots(MaxDiffLen) : args = [before |-> before]
    /\ \E after \in Snapshots(MaxDiffLen) : elements \in {after, Reversed(after)}
    /\ description = ""
    /\ result = NULL
    /\ cachedElements = <<>>
    /\ device = NoDevice

DiffUiElementsCall ==
    /\ pc = "input"
    /\ result' = diffUiElements(args.before, elements)
    /\ pc' = "diffUiElements"
    /\ UNCHANGED <<input, elements, description, args, cachedElements, device>>

NextDiff == DiffUiElementsCall

SpecDiff == InitDiff /\ [][NextDiff]_vars

(***************************************************************************)
(* Claims about diffUiElements                                             *)
(***************************************************************************)
Diffed == pc = "diffUiElements"

\* C13: diffUiElements(s, s) has empty appeared and disappeared lists and
\* screenChanged = false, and so have any two sequences with the same set
\* of fingerprints, whatever their indices and order.
C13_SameFingerprintsNoChange ==
    (Diffed /\ FingerprintSet(args.before) = FingerprintSet(elements)) =>
        /\ result.appeared = <<>>
        /\ result.disappeared = <<>>
        /\ result.screenChanged = FALSE

\* two different sequences of the same fingerprints: reordered, and one
\* fingerprint carried by a different number of elements
C13_Witness ==
    /\ Diffed
    /\ Len(args.before) = 2 /\ Len(elements) = 3
    /\ FingerprintSet(args.before) = FingerprintSet(elements)
    /\ elementFingerprint(elements[3]) = elementFingerprint(args.before[1])
    /\ elementFingerprint(elements[1]) = elementFingerprint(elements[2])
    /\ result.appeared = <<>> /\ result.disappeared = <<>> /\ ~ result.screenChanged

\* the triple the spec compares
Triple(el) == <<el.resourceId, el.text, el.className>>
TripleAbsentFrom(el, elems) == \A i \in 1..Len(elems) : Triple(elems[i]) # Triple(el)

\* C14: two elements are the same iff their (resourceId, text, className)
\* triples are equal component by component: an element of after is reported
\* as appeared iff no element of before has the same triple, symmetrically
\* for disappeared (the first 5 of each side); elements with different
\* triples are never identified.
C14_IdentityIsTripleEquality ==
    Diffed =>
        /\ result.appeared =
              DescribeFirstFive(SelectSeq(elements, LAMBDA el : TripleAbsentFrom(el, args.before)))
        /\ result.disappeared =
              DescribeFirstFive(SelectSeq(args.before, LAMBDA el : TripleAbsentFrom(el, elements)))

\* the counts of the claim: elements, not fingerprints, before the cap of 5
AppearedCount == Len(SelectSeq(elements, LAMBDA el : elementFingerprint(el) \notin FingerprintSet(args.before)))
DisappearedCount == Len(SelectSeq(args.before, LAMBDA el : elementFingerprint(el) \notin FingerprintSet(elements)))
UnionSize == Cardinality(FingerprintSet(args.before) \cup FingerprintSet(elements))

\* C15: screenChanged is true iff the union of the two fingerprint sets is
\* non-empty and (appeared + disappeared elements) / |union| > 0.6 strictly;
\* exactly 0.6 gives false, two empty sequences give false, two non-empty
\* sequences with wholly distinct fingerprints give true.
C15_ScreenChangedAboveSixTenths ==
    Diffed =>
        /\ result.screenChanged <=>
              (UnionSize > 0 /\ 5 * (AppearedCount + DisappearedCount) > 3 * UnionSize)
        /\ (UnionSize > 0 /\ 5 * (AppearedCount + DisappearedCount) = 3 * UnionSize)
              => ~ result.screenChanged
        /\ (args.before = <<>> /\ elements = <<>>) => ~ result.screenChanged
        /\ ( /\ args.before # <<>> /\ elements # <<>>
             /\ FingerprintSet(args.before) \cap FingerprintSet(elements) = {} )
              => result.screenChanged

\* three changed elements over a union of five fingerprints: exactly 0.6
C15_Witness ==
    /\ Diffed
    /\ UnionSize = 5
    /\ AppearedCount + DisappearedCount = 3
    /\ ~ result.screenChanged

\* no two elements of the two sequences differ in a component and agree in
\* the fingerprint
FingerprintsSeparateTriples ==
    LET both == args.before \o elements
    IN  \A i, j \in 1..Len(both) :
            elementFingerprint(both[i]) = elementFingerprint(both[j]) => Triple(both[i]) = Triple(both[j])

\* fingerprints present on just one of the two sides
OneSided ==
    (FingerprintSet(args.before) \ FingerprintSet(elements)) \cup
    (FingerprintSet(elements) \ FingerprintSet(args.before))

\* C16: screenChanged = true only when more than 60% of the distinct
\* fingerprints of the union are present on just one side, also when several
\* elements share a fingerprint; a change of 60% or less of the combined
\* fingerprint set never yields screenChanged = true.
C16_ChangedOnlyAboveSixtyPercentOfFingerprints ==
    (Diffed /\ FingerprintsSeparateTriples /\ result.screenChanged) =>
        5 * Cardinality(OneSided) > 3 * UnionSize

(***************************************************************************)
(* Claims about analyzeScreen and formatUiTree                             *)
(***************************************************************************)
Analyzed == pc = "analyzeScreen"

\* an activity hint that names an activity
HasActivity == IsDefined(args.activity) /\ args.activity[1] # ""

\* C17: analyzeScreen on the empty sequence with no activity hint returns
\* the summary "Empty screen" and empty buttons, inputs, texts and
\* scrollable groups; for any input the summary is "Empty screen" iff there
\* is no activity or title, no dialog, no button, no input, no scrollable
\* and no navigation flag.
C17_EmptyScreenIffNothingFound ==
    Analyzed =>
        /\ (elements = <<>> /\ ~ IsDefined(args.activity)) =>
              /\ result.summary = "Empty screen"
              /\ result.buttons = <<>> /\ result.inputs = <<>>
              /\ result.texts = <<>> /\ result.scrollable = <<>>
        /\ result.summary = "Empty screen" <=>
              /\ ~ HasActivity
              /\ ~ IsDefined(detectScreenTitle(elements))
              /\ ~ detectDialog(elements).hasDialog
              /\ result.buttons = <<>>
              /\ result.inputs = <<>>
              /\ result.scrollable = <<>>
              /\ ~ detectNavigation(elements).hasBack
              /\ ~ detectNavigation(elements).hasMenu
              /\ ~ detectNavigation(elements).hasTabs

\* a screen that is not empty and still has nothing to summarise
C17_Witness ==
    /\ Analyzed
    /\ Len(elements) = 2
    /\ ~ HasActivity
    /\ result.summary = "Empty screen"

ShownToUser(el) == el.width > 0 /\ el.height > 0

\* text, else content description, else short resource id
LabelOf(el) ==
    IF el.text # "" THEN el.text
    ELSE IF el.contentDesc # "" THEN el.contentDesc
    ELSE IF Includes(el.resourceId, ":id/") THEN LastOf(Split(el.resourceId, ":id/"))
    ELSE el.resourceId

ButtonOf(el) == [index |-> el.index, label |-> LabelOf(el), coordinates |-> [x |-> el.centerX, y |-> el.centerY]]

\* C19 as stated: the buttons group contains, in sequence order, exactly
\* the elements that are clickable and enabled and have a non-empty label
\* (text, else content description, else short resource id), each entry
\* with the index and coordinates of its source element.
C19_ButtonsAreEnabledClickableLabelled ==
    Analyzed =>
        LET claimed == SelectSeq(elements, LAMBDA el : el.clickable /\ el.enabled /\ LabelOf(el) # "")
        IN  result.buttons = [i \in 1..Len(claimed) |-> ButtonOf(claimed[i])]

\* C19 amended: the buttons group contains, in sequence order, exactly the
\* visible elements (width > 0 and height > 0) that are clickable and
\* enabled and have a non-empty label; no entry comes from a disabled
\* element and each entry has the index and coordinates of its source.
C19_ButtonsAreVisibleEnabledClickableLabelled ==
    Analyzed =>
        /\ LET claimed == SelectSeq(elements, LAMBDA el :
                              ShownToUser(el) /\ el.clickable /\ el.enabled /\ LabelOf(el) # "")
           IN  result.buttons = [i \in 1..Len(claimed) |-> ButtonOf(claimed[i])]
        /\ \A j \in 1..Len(result.buttons) :
              \E i \in 1..Len(elements) :
                  /\ elements[i].index = result.buttons[j].index
                  /\ elements[i].enabled
                  /\ result.buttons[j].coordinates.x = elements[i].centerX
                  /\ result.buttons[j].coordinates.y = elements[i].centerY

\* an enabled button of zero height is left out, a visible one labelled by
\* its short id is in the group
C19_Witness ==
    /\ Analyzed
    /\ Len(elements) = 2
    /\ elements[1].clickable /\ elements[1].enabled /\ elements[1].text # "" /\ elements[1].height = 0
    /\ elements[2].text = "" /\ elements[2].contentDesc = ""
    /\ result.buttons = <<[index |-> 1, label |-> "back", coordinates |-> [x |-> 150, y |-> 20]]>>

ScrollableOf(el) ==
    [index |-> el.index,
     direction |-> IF el.height > el.width THEN "vertical" ELSE "horizontal",
     coordinates |-> [x |-> el.centerX, y |-> el.centerY]]

\* C20 as stated: every element with scrollable = true appears in the
\* scrollable group and no other element does; the direction is "vertical"
\* iff height > width and "horizontal" otherwise.
C20_EveryScrollableIsGrouped ==
    Analyzed =>
        LET claimed == SelectSeq(elements, LAMBDA el : el.scrollable)
        IN  result.scrollable = [i \in 1..Len(claimed) |-> ScrollableOf(claimed[i])]

\* C20 amended: every visible element (width > 0 and height > 0) with
\* scrollable = true appears in the scrollable group, and no other element
\* does; the direction is "vertical" iff height > width and "horizontal"
\* otherwise (never "both").
C20_EveryVisibleScrollableIsGrouped ==
    Analyzed =>
        /\ LET claimed == SelectSeq(elements, LAMBDA el : ShownToUser(el) /\ el.scrollable)
           IN  result.scrollable = [i \in 1..Len(claimed) |-> ScrollableOf(claimed[i])]
        /\ \A j \in 1..Len(result.scrollable) :
              result.scrollable[j].direction \in {"vertical", "horizontal"}

\* a scrollable element of zero width is left out and a square one is
\* horizontal
C20_Witness ==
    /\ Analyzed
    /\ Len(elements) = 2
    /\ elements[1].scrollable /\ elements[1].width = 0
    /\ elements[2].scrollable /\ elements[2].width = elements[2].height
    /\ Len(result.scrollable) = 1
    /\ result.scrollable[1].index = 1
    /\ result.scrollable[1].direction = "horizontal"

Formatted == pc = "formatUiTree"

\* the options in force: showAll defaults to false, maxElements to 100
ShowAllOption == IsDefined(args.options.showAll) /\ args.options.showAll[1]
MaxElementsOption == IF IsDefined(args.options.maxElements) THEN args.options.maxElements[1] ELSE 100

\* text, content description, clickable, scrollable, focusable or a qualified id
PassesFilter(el) ==
    \/ ShowAllOption
    \/ el.text # "" \/ el.contentDesc # ""
    \/ el.clickable \/ el.scrollable \/ el.focusable
    \/ Includes(el.resourceId, ":id/")

Rendered ==
    LET passing == SelectSeq(elements, PassesFilter)
    IN  SubSeq(passing, 1, Min(MaxElementsOption, Len(passing)))

\* C18: for every maxElements >= 0, formatUiTree renders exactly the first
\* min(maxElements, k) of the k elements that pass the filter (all elements
\* with showAll), in sequence order; the filter is applied before the
\* truncation, and the result is "No UI elements found" iff no element is
\* rendered.
C18_FilterThenFirstMaxElements ==
    (Formatted /\ MaxElementsOption >= 0) =>
        /\ Rendered # <<>> =>
              result = Join([i \in 1..Len(Rendered) |-> formatElement(Rendered[i])], "\n")
        /\ result = "No UI elements found" <=> Rendered = <<>>

\* the first element does not pass the filter, the second does and is the
\* only one rendered under maxElements = 1
C18_Witness ==
    /\ Formatted
    /\ ~ ShowAllOption /\ MaxElementsOption = 1
    /\ Len(elements) = 2
    /\ ~ PassesFilter(elements[1])
    /\ result = formatElement(elements[2])

(***************************************************************************)
(* Claims about the lines of the desktop dump                              *)
(***************************************************************************)
\* "<", one or more word characters, ">" somewhere in the line
HasClassTag(line) ==
    \E i \in 1..Len(line) :
        /\ CharAt(line, i) = "<"
        /\ WordEnd(line, i + 1) >= i + 1
        /\ WordEnd(line, i + 1) < Len(line)
        /\ CharAt(line, WordEnd(line, i + 1) + 1) = ">"

\* text="..." somewhere in the line
HasTextAttribute(line) ==
    \E i \in 1..Len(line) :
        MatchesAt(line, "text=\"", i) /\ IndexOfFrom(line, "\"", i + 6) # 0

\* "@ (x, y)" with decimal x and y somewhere in the line
HasCoordinateMarker(line) ==
    \E i \in 1..Len(line) :
        /\ MatchesAt(line, "@ (", i)
        /\ LET xEnd == DigitsEnd(line, i + 3)
               yAt  == SpacesEnd(line, xEnd + 2) + 1
           IN  /\ xEnd >= i + 3
               /\ MatchesAt(line, ",", xEnd + 1)
               /\ DigitsEnd(line, yAt) >= yAt
               /\ MatchesAt(line, ")", DigitsEnd(line, yAt) + 1)

\* "[WxH]" with decimal W and H somewhere in the line
HasExplicitSize(line) ==
    \E i \in 1..Len(line) :
        /\ CharAt(line, i) = "["
        /\ LET wEnd == DigitsEnd(line, i + 1)
           IN  /\ wEnd >= i + 1
               /\ MatchesAt(line, "x", wEnd + 1)
               /\ DigitsEnd(line, wEnd + 2) >= wEnd + 2
               /\ MatchesAt(line, "]", DigitsEnd(line, wEnd + 2) + 1)

CarriesSignal(line) == HasClassTag(line) \/ HasTextAttribute(line) \/ HasCoordinateMarker(line)

\* a separator or header line: empty once trimmed, or starting with the rule
\* character or with "="
SeparatorLine(line) ==
    Trim(line) = "" \/ MatchesAt(Trim(line), RuleChar, 1) \/ MatchesAt(Trim(line), "=", 1)

DesktopParsed == pc = "desktopHierarchyToUiElements"

\* the element of every emitted line is that of its line, with the default
\* size when the line has no explicit one
ElementsOfLines(emitted) ==
    /\ Len(elements) = Len(emitted)
    /\ \A k \in 1..Len(emitted) :
          /\ k <= Len(elements)
          /\ elements[k] = LineElement(Trim(emitted[k]), k - 1)
          /\ ~ HasExplicitSize(emitted[k]) => (elements[k].width = 100 /\ elements[k].height = 40)

\* C27 as stated: the desktop parser emits exactly one element, in line
\* order, for every line that carries a class tag, a text attribute or a
\* coordinate marker, and skips a line only when it carries none of them;
\* an element without an explicit size gets width 100 and height 40.
C27_OneElementPerSignalLine ==
    DesktopParsed => ElementsOfLines(SelectSeq(Split(input, "\n"), CarriesSignal))

\* C27 amended: the desktop parser emits exactly one element, in line order,
\* for every line that is no separator (trimmed, it is non-empty and does not
\* start with the rule character or "=") and carries a class tag, a text
\* attribute or a coordinate marker, and skips every other line; an element
\* without an explicit size gets width 100 and height 40.
C27_OneElementPerSignalLineThatIsNoSeparator ==
    DesktopParsed =>
        ElementsOfLines(SelectSeq(Split(input, "\n"),
                                  LAMBDA line : ~ SeparatorLine(line) /\ CarriesSignal(line)))

\* a header line with a class tag is skipped between a line that has only a
\* coordinate marker and a line without a size
C27_Witness ==
    /\ DesktopParsed
    /\ LET lines == Split(input, "\n")
       IN  /\ Len(lines) = 3
           /\ ~ HasClassTag(lines[1]) /\ ~ HasTextAttribute(lines[1]) /\ HasCoordinateMarker(lines[1])
           /\ MatchesAt(lines[2], "=", 1) /\ HasClassTag(lines[2])
           /\ HasClassTag(lines[3]) /\ ~ HasExplicitSize(lines[3])
    /\ Len(elements) = 2
    /\ elements[2].width = 100 /\ elements[2].height = 40

(***************************************************************************)
(* Claims about descriptions that name nothing and about attribute names   *)
(***************************************************************************)
\* C28: findBestMatch with an empty or whitespace-only description returns
\* null for every element sequence.
C28_BlankDescriptionMatchesNothing ==
    (pc = "findBestMatch" /\ Trim(description) = "") => result = NULL

\* the value of the attribute of node whose name is exactly name: the name
\* follows a blank; "" when there is none
ExactAttr(node, name) ==
    LET open == " " \o name \o "=\""
        hits == {i \in 1..Len(node) :
                    MatchesAt(node, open, i) /\ IndexOfFrom(node, "\"", i + Len(open)) # 0}
    IN  IF hits = {} THEN ""
        ELSE LET i == CHOOSE h \in hits : \A j \in hits : h <= j
             IN  SubSeq(node, i + Len(open), IndexOfFrom(node, "\"", i + Len(open)) - 1)

\* C29: each field of an element parsed from markup carries the value of
\* the node attribute with exactly that name, whatever the order of the
\* attributes: clickable is never read from long-clickable, and text, class,
\* checked, focused, selected and enabled are never read from an attribute
\* whose name merely ends with the same letters.
C29_FieldsReadFromExactAttribute ==
    (pc = "parseUiHierarchy" /\ input \in XmlFragments /\ Len(elements) = 1) =>
        /\ elements[1].clickable = (ExactAttr(input, "clickable") = "true")
        /\ elements[1].text = ExactAttr(input, "text")
        /\ elements[1].className = ExactAttr(input, "class")
        /\ elements[1].checked = (ExactAttr(input, "checked") = "true")
        /\ elements[1].focused = (ExactAttr(input, "focused") = "true")
        /\ elements[1].selected = (ExactAttr(input, "selected") = "true")
        /\ elements[1].enabled = (ExactAttr(input, "enabled") = "true")

(***************************************************************************)
(* Screens handed to detectScreenTitle, detectDialog and detectNavigation  *)
(***************************************************************************)
MaxDetect == 3

Box(x1, y1, x2, y2) == [x1 |-> x1, y1 |-> y1, x2 |-> x2, y2 |-> y2]

Selected(el) == [el EXCEPT !.selected = TRUE]

\* a full-screen root, a card and an alert in the middle of it with a message
\* and a button, a text across the card's right edge, a card near the screen
\* corner, a top text, a toolbar, a tab strip with a selected tab, and a
\* selected list row
DetectPool ==
    { Widget("android.widget.FrameLayout", "", "", "", FALSE, TRUE, FALSE, Box(0, 0, 1000, 2000)),
      Widget("android.widget.FrameLayout", "", "", "", FALSE, TRUE, FALSE, Box(100, 500, 900, 1500)),
      Widget("android.app.AlertDialog", "", "", "", FALSE, TRUE, FALSE, Box(100, 500, 900, 1500)),
      Widget("android.widget.TextView", "Delete file?", "", "", FALSE, TRUE, FALSE, Box(150, 600, 850, 700)),
      Widget("android.widget.Button", "OK", "", "", TRUE, TRUE, FALSE, Box(150, 1300, 450, 1400)),
      Widget("android.view.View", "Hint", "", "", FALSE, TRUE, FALSE, Box(10, 50, 810, 1050)),
      Widget("android.widget.TextView", "Inbox", "", "", FALSE, TRUE, FALSE, Box(0, 0, 1000, 100)),
      Widget("androidx.appcompat.widget.Toolbar", "Settings", "", "", FALSE, TRUE, FALSE, Box(0, 0, 1000, 150)),
      Widget("com.google.android.material.tabs.TabLayout", "", "", "", FALSE, TRUE, FALSE, Box(0, 1800, 1000, 2000)),
      Selected(Widget("TabItem", "Home", "", "", TRUE, TRUE, FALSE, Box(0, 1800, 500, 2000))),
      Selected(Widget("android.widget.TextView", "Row 3", "", "", FALSE, TRUE, FALSE, Box(150, 800, 1000, 900))) }

RECURSIVE DetectSeqs(_)
DetectSeqs(n) ==
    IF n = 0 THEN {<<>>}
    ELSE DetectSeqs(n - 1) \cup
         {Indexed(Append(s, e)) : s \in {t \in DetectSeqs(n - 1) : Len(t) = n - 1}, e \in DetectPool}

InitDetect ==
    /\ pc = "input"
    /\ input = ""
    /\ elements \in DetectSeqs(MaxDetect)
    /\ description = ""
    /\ args = NoArgs
    /\ result = NULL
    /\ cachedElements = <<>>
    /\ device = NoDevice

DetectScreenTitleCall ==
    /\ pc = "input"
    /\ result' = detectScreenTitle(elements)
    /\ pc' = "detectScreenTitle"
    /\ UNCHANGED <<input, elements, description, args, cachedElements, device>>

DetectDialogCall ==
    /\ pc = "input"
    /\ result' = detectDialog(elements)
    /\ pc' = "detectDialog"
    /\ UNCHANGED <<input, elements, description, args, cachedElements, device>>

DetectNavigationCall ==
    /\ pc = "input"
    /\ result' = detectNavigation(elements)
    /\ pc' = "detectNavigation"
    /\ UNCHANGED <<input, elements, description, args, cachedElements, device>>

NextDetect == DetectScreenTitleCall \/ DetectDialogCall \/ DetectNavigationCall

SpecDetect == InitDetect /\ [][NextDetect]_vars

(***************************************************************************)
(* Claims about the detectors                                              *)
(***************************************************************************)
Positions == 1..Len(elements)

\* the least position in a non-empty set of positions
Least(S) == CHOOSE i \in S : \A j \in S : i <= j

ClassContains(el, names) == \E n \in names : Includes(el.className, n)

DialogFamily == {i \in Positions :
                    ClassContains(elements[i], {"AlertDialog", "Dialog", "BottomSheet", "Modal", "Popup", "Alert"})}

TextViewLike(el) == ClassContains(el, {"TextView", "StaticText"})

\* the bounds of inner lie in the bounds of outer on all four edges
NestedIn(inner, outer) ==
    /\ inner.bounds.x1 >= outer.bounds.x1 /\ inner.bounds.x2 <= outer.bounds.x2
    /\ inner.bounds.y1 >= outer.bounds.y1 /\ inner.bounds.y2 <= outer.bounds.y2

DialogTitleCandidates ==
    {i \in Positions :
        /\ elements[i].text # ""
        /\ TextViewLike(elements[i])
        /\ NestedIn(elements[i], elements[Least(DialogFamily)])}

\* C21: if some element's class name contains a dialog-family name,
\* detectDialog returns hasDialog = true and dialogTitle is the text of the
\* first element with non-empty text, a text-view-like class and bounds
\* within those of the first dialog-class element on all four edges;
\* dialogTitle is undefined when there is no such element.
C21_DialogClassAndItsTitle ==
    (pc = "detectDialog" /\ DialogFamily # {}) =>
        /\ result.hasDialog
        /\ DialogTitleCandidates # {} =>
              result.dialogTitle = Some(elements[Least(DialogTitleCandidates)].text)
        /\ DialogTitleCandidates = {} => result.dialogTitle = Undefined

\* a text that crosses the dialog's edge comes first and is passed over for
\* the nested text behind it
C21_Witness ==
    /\ pc = "detectDialog"
    /\ Len(elements) = 3
    /\ DialogFamily = {3}
    /\ TextViewLike(elements[1]) /\ elements[1].text # "" /\ ~ NestedIn(elements[1], elements[3])
    /\ elements[1].bounds.x1 >= elements[3].bounds.x1 /\ elements[1].bounds.y1 >= elements[3].bounds.y1
    /\ result.hasDialog
    /\ result.dialogTitle = Some(elements[2].text)

AreaOf(el) == el.width * el.height

LargestArea == CHOOSE a \in {AreaOf(elements[i]) : i \in Positions} :
                   \A i \in Positions : AreaOf(elements[i]) <= a

\* a frame or view whose area is strictly between 30% and 85% of the largest
AreaBetween(el) ==
    /\ ClassContains(el, {"FrameLayout", "View"})
    /\ 100 * AreaOf(el) > 30 * LargestArea
    /\ 100 * AreaOf(el) < 85 * LargestArea

NestedTexts(el) ==
    {j \in Positions : elements[j].text # "" /\ ~ elements[j].clickable /\ NestedIn(elements[j], el)}

OffsetCards == {i \in Positions :
                   AreaBetween(elements[i]) /\ elements[i].bounds.y1 # 0 /\ elements[i].bounds.x1 # 0}

\* C22 as stated: when no element has a dialog-family class, hasDialog is
\* true iff some frame or view element has an area strictly between 30% and
\* 85% of the largest element area and a nonzero top and left offset; the
\* title is then the first non-clickable element with text nested in it.
C22_CardWithNonzeroOffset ==
    (pc = "detectDialog" /\ DialogFamily = {}) =>
        /\ result.hasDialog <=> OffsetCards # {}
        /\ (result.hasDialog /\ OffsetCards # {} /\ NestedTexts(elements[Least(OffsetCards)]) # {}) =>
              result.dialogTitle = Some(elements[Least(NestedTexts(elements[Least(OffsetCards)]))].text)

TitledCards == {i \in Positions :
                   /\ AreaBetween(elements[i])
                   /\ elements[i].bounds.y1 > 100
                   /\ elements[i].bounds.x1 > 20
                   /\ NestedTexts(elements[i]) # {}}

\* C22 amended: when no element has a dialog-family class, hasDialog is true
\* iff some element whose class contains FrameLayout or View has an area
\* strictly between 30% and 85% of the largest element area, y1 > 100,
\* x1 > 20 and a non-clickable element with text within its bounds; the
\* title is the text of the first such element within the first such card,
\* and otherwise hasDialog is false and the title undefined.
C22_CardWithOffsetsAndNestedText ==
    (pc = "detectDialog" /\ DialogFamily = {}) =>
        /\ result.hasDialog <=> TitledCards # {}
        /\ TitledCards # {} =>
              result.dialogTitle = Some(elements[Least(NestedTexts(elements[Least(TitledCards)]))].text)
        /\ TitledCards = {} => result.dialogTitle = Undefined

\* the card is found behind its message, under a root that is the largest
C22_Witness ==
    /\ pc = "detectDialog"
    /\ DialogFamily = {}
    /\ Len(elements) = 3
    /\ TitledCards = {3}
    /\ AreaOf(elements[2]) = LargestArea
    /\ result.hasDialog
    /\ result.dialogTitle = Some(elements[1].text)

ToolbarTitles == {i \in Positions :
                     /\ ClassContains(elements[i], {"Toolbar", "ActionBar", "NavigationBar", "Header"})
                     /\ elements[i].text # ""}

FallbackTitles == {i \in Positions :
                      /\ ~ elements[i].clickable
                      /\ elements[i].text # ""
                      /\ elements[i].bounds.y1 < 200
                      /\ elements[i].width > 200
                      /\ TextViewLike(elements[i])}

\* C23: detectScreenTitle returns the text of the first toolbar-family
\* element with non-empty text whenever there is one, even behind a
\* fallback-eligible text; otherwise the text of the first non-clickable
\* element with text, y1 < 200, width > 200 and a text-view-like class;
\* otherwise undefined.
C23_ToolbarThenTopText ==
    pc = "detectScreenTitle" =>
        result = IF ToolbarTitles # {} THEN Some(elements[Least(ToolbarTitles)].text)
                 ELSE IF FallbackTitles # {} THEN Some(elements[Least(FallbackTitles)].text)
                 ELSE Undefined

\* a top text in front of the toolbar, and the toolbar's text is the title
C23_Witness ==
    /\ pc = "detectScreenTitle"
    /\ Len(elements) = 2
    /\ FallbackTitles = {1}
    /\ ToolbarTitles = {2}
    /\ result = Some(elements[2].text)
    /\ elements[1].text # elements[2].text

\* a selected element with text and "tab" in its class name or resource id
SelectedTabs == {i \in Positions :
                    /\ elements[i].selected
                    /\ elements[i].text # ""
                    /\ \/ Includes(ToLowerCase(elements[i].className), "tab")
                       \/ Includes(ToLowerCase(elements[i].resourceId), "tab")}

\* C24: whenever detectNavigation returns a defined currentTab, hasTabs is
\* true and currentTab is the text of a selected element with non-empty
\* text that has "tab" in its class name or resource id, in every order of
\* the sequence.
C24_CurrentTabIsASelectedTab ==
    (pc = "detectNavigation" /\ IsDefined(result.currentTab)) =>
        /\ result.hasTabs
        /\ \E i \in SelectedTabs : elements[i].text = result.currentTab[1]

(***************************************************************************)
(* suggestNextActions                                                      *)
(***************************************************************************)
IsFocusedInput(el) ==
    el.focused /\ IncludesSome(el.className, {"EditText", "TextField", "TextInput"})

\* /^(OK|Cancel|...)$/i: the whole string is one of the words, in any case
IsDialogButton(el) ==
    /\ el.clickable
    /\ el.enabled
    /\ \/ ToLowerCase(el.text) \in
              {"ok", "cancel", "yes", "no", "confirm", "dismiss", "close", "accept", "deny", "allow",
               "don't allow"}
       \/ ToLowerCase(el.contentDesc) \in
              {"ok", "cancel", "yes", "no", "confirm", "dismiss", "close", "accept", "deny", "allow"}

IsLabelledClickable(el) ==
    /\ el.clickable
    /\ el.enabled
    /\ el.text # "" \/ el.contentDesc # ""
    /\ el.width > 10
    /\ el.height > 10

\* the scroll suggestion is pushed first
ScrollFirst(inputPart, dialogPart, tapPart, scrollPart) ==
    SliceTo(scrollPart \o inputPart \o dialogPart \o tapPart, 4)

\* the pushes in the order of the function body, then suggestions.slice(0, 4)
InOrderOfPushes(inputPart, dialogPart, tapPart, scrollPart) ==
    SliceTo(inputPart \o dialogPart \o tapPart \o scrollPart, 4)

suggestNextActions(elems) ==
    LET focusedInputs == {i \in 1..Len(elems) : IsFocusedInput(elems[i])}
        inputPart ==
            IF focusedInputs # {}
            THEN LET focusedInput == elems[FirstOf(focusedInputs)]
                     name == OrString(focusedInput.contentDesc,
                                 OrString(focusedInput.text,
                                     OrString(getShortId(focusedInput.resourceId), "field")))
                 IN  <<"input_text into " \o name>>
            ELSE <<>>
        dialogButtons == SelectSeq(elems, IsDialogButton)
        dialogPart ==
            IF Len(dialogButtons) > 0
            THEN <<"tap " \o Join([i \in 1..Len(dialogButtons) |->
                                      OrString(dialogButtons[i].text, dialogButtons[i].contentDesc)], " or ")>>
            ELSE <<>>
        clickableElements == SelectSeq(elems, IsLabelledClickable)
        firstThree == SliceTo(clickableElements, 3)
        tapPart ==
            IF Len(clickableElements) > 0 /\ Len(inputPart \o dialogPart) < 3
            THEN <<"tap " \o Join([i \in 1..Len(firstThree) |->
                                      Quoted(OrString(firstThree[i].text, firstThree[i].contentDesc))], ", ")>>
            ELSE <<>>
        scrollPart ==
            IF \E i \in 1..Len(elems) : elems[i].scrollable THEN <<"scroll to see more">> ELSE <<>>
    IN  InOrderOfPushes(inputPart, dialogPart, tapPart, scrollPart)

MaxSuggest == 4

\* a focused input, dialog buttons, another button, a disabled button, a
\* close icon of 10x10 px and a scroll view
SuggestPool ==
    { [Widget("android.widget.EditText", "", "Username", "", FALSE, TRUE, FALSE, Visible) EXCEPT !.focused = TRUE],
      Widget("android.widget.Button", "OK", "", "", TRUE, TRUE, FALSE, Visible),
      Widget("android.widget.Button", "Cancel", "", "", TRUE, TRUE, FALSE, Visible),
      Widget("android.widget.Button", "Settings", "", "", TRUE, TRUE, FALSE, Visible),
      Widget("android.widget.Button", "OK", "", "", TRUE, FALSE, FALSE, Visible),
      Widget("android.widget.ImageView", "", "Close", "", TRUE, TRUE, FALSE, Box(0, 0, 10, 10)),
      Widget("android.widget.ScrollView", "", "", "", FALSE, TRUE, TRUE, Tall) }

RECURSIVE SuggestSeqs(_)
SuggestSeqs(n) ==
    IF n = 0 THEN {<<>>}
    ELSE SuggestSeqs(n - 1) \cup
         {Indexed(Append(s, e)) : s \in {t \in SuggestSeqs(n - 1) : Len(t) = n - 1}, e \in SuggestPool}

InitSuggest ==
    /\ pc = "input"
    /\ input = ""
    /\ elements \in SuggestSeqs(MaxSuggest)
    /\ description = ""
    /\ args = NoArgs
    /\ result = NULL
    /\ cachedElements = <<>>
    /\ device = NoDevice

SuggestNextActionsCall ==
    /\ pc = "input"
    /\ result' = suggestNextActions(elements)
    /\ pc' = "suggestNextActions"
    /\ UNCHANGED <<input, elements, description, args, cachedElements, device>>

NextSuggest == SuggestNextActionsCall

SpecSuggest == InitSuggest /\ [][NextSuggest]_vars

(***************************************************************************)
(* Claims about suggestNextActions                                         *)
(***************************************************************************)
Suggested == pc = "suggestNextActions"

\* the heuristic a suggestion comes from, by its wording: 1 text entry,
\* 2 dialog buttons, 3 labelled clickable elements, 4 scroll
Heuristic(suggestion) ==
    IF MatchesAt(suggestion, "input_text into ", 1) THEN 1
    ELSE IF suggestion = "scroll to see more" THEN 4
    ELSE IF MatchesAt(suggestion, "tap \"", 1) THEN 3
    ELSE IF MatchesAt(suggestion, "tap ", 1) THEN 2
    ELSE 0

FromHeuristic(k) == {j \in 1..Len(result) : Heuristic(result[j]) = k}

InputLike(el) == ClassContains(el, {"EditText", "TextField", "TextInput"})

\* C25: suggestNextActions returns at most 4 suggestions, at most one from
\* each heuristic, always in the order text entry for a focused input-like
\* element, tap on the joined dialog-affirmation buttons, tap on labelled
\* clickable elements, scroll; it returns the empty list for the empty
\* sequence.
C25_AtMostOnePerHeuristicInOrder ==
    Suggested =>
        /\ Len(result) <= 4
        /\ \A j \in 1..Len(result) : Heuristic(result[j]) \in 1..4
        /\ \A j, k \in 1..Len(result) : j < k => Heuristic(result[j]) < Heuristic(result[k])
        /\ FromHeuristic(1) # {} => \E i \in Positions : elements[i].focused /\ InputLike(elements[i])
        /\ FromHeuristic(4) # {} => \E i \in Positions : elements[i].scrollable
        /\ elements = <<>> => result = <<>>

\* all four heuristics speak, the scroll view in front of the focused input
C25_Witness ==
    /\ Suggested
    /\ Len(elements) = 3
    /\ elements[1].scrollable
    /\ elements[3].focused
    /\ Len(result) = 4
    /\ Heuristic(result[1]) = 1 /\ Heuristic(result[4]) = 4

AffirmationWords ==
    {"OK", "Cancel", "Yes", "No", "Confirm", "Dismiss", "Close", "Accept", "Deny", "Allow"}

SameWord(str, word) == ToLowerCase(str) = ToLowerCase(word)

\* a dialog-affirmation button: enabled, clickable, its text or description
\* one of the affirmation words
NamedByDialogSuggestion(el) ==
    /\ el.clickable /\ el.enabled
    /\ \/ \E w \in AffirmationWords \cup {"Don't allow"} : SameWord(el.text, w)
       \/ \E w \in AffirmationWords : SameWord(el.contentDesc, w)

OtherLabelledClickables ==
    SelectSeq(elements, LAMBDA el :
        /\ el.clickable /\ el.enabled
        /\ el.text # "" \/ el.contentDesc # ""
        /\ el.width >= 10 /\ el.height >= 10
        /\ ~ NamedByDialogSuggestion(el))

\* C26: the third heuristic names at most 3 enabled, clickable, labelled
\* elements of at least 10x10 px other than the elements already named by
\* the dialog-affirmation suggestion, and is added only while fewer than 3
\* suggestions have been produced.
C26_ThirdHeuristicNamesOtherElements ==
    Suggested =>
        LET others == SubSeq(OtherLabelledClickables, 1, Min(3, Len(OtherLabelledClickables)))
            labels == [i \in 1..Len(others) |->
                          "\"" \o (IF others[i].text # "" THEN others[i].text ELSE others[i].contentDesc) \o "\""]
        IN  /\ FromHeuristic(3) # {} <=> others # <<>>
            /\ \A j \in FromHeuristic(3) :
                  /\ result[j] = "tap " \o Join(labels, ", ")
                  /\ j <= 3

(***************************************************************************)
(* The router: handleTool with its cache of parsed elements                *)
(***************************************************************************)
\* dumps the device can show: no node, one button, a label in front of a
\* clickable button whose texts both contain "ok"
RouterDumps ==
    { "<hierarchy rotation=\"0\"></hierarchy>",
      "<node text=\"OK\" resource-id=\"com.app:id/btn_ok\" clickable=\"true\" enabled=\"true\" bounds=\"[0,1][3,6]\" />",
      "<node text=\"Look\" bounds=\"[0,0][4,4]\"><node text=\"OK\" clickable=\"true\" bounds=\"[10,20][30,40]\" />" }

\* parseUiHierarchy(adb.getUiHierarchy()), worked out once for each dump
ParsedDump == [xml \in RouterDumps |-> parseUiHierarchy(xml)]

findByText(elems, text) ==
    LET lowerText == ToLowerCase(text)
    IN  SelectSeq(elems, LAMBDA el :
            \/ Includes(ToLowerCase(el.text), lowerText)
            \/ Includes(ToLowerCase(el.contentDesc), lowerText))

findByResourceId(elems, id) ==
    SelectSeq(elems, LAMBDA el : Includes(el.resourceId, id))

\* what one call leaves behind: the cache, how often it read the hierarchy
\* from the device, the text it returns, the gesture it sent to the device
Reply(cache, fetches, text, sent) ==
    [cachedElements |-> cache, fetches |-> fetches, text |-> text, sent |-> sent]

\* the hierarchy is read again although the cache holds elements
RefreshAlways(cache, xml) ==
    [cachedElements |-> ParsedDump[xml], fetches |-> 1]

\* if (cachedElements.length === 0) { cachedElements = parseUiHierarchy(adb.getUiHierarchy()) }
RefreshIfEmpty(cache, xml) ==
    IF Len(cache) = 0
    THEN [cachedElements |-> ParsedDump[xml], fetches |-> 1]
    ELSE [cachedElements |-> cache, fetches |-> 0]

HandleGetUi(xml, a) ==
    LET cache == ParsedDump[xml]
        tree  == formatUiTree(cache, [showAll |-> a.showAll, maxElements |-> Undefined])
    IN  Reply(cache, 1, tree, Undefined)

\* lines 369-373: the tap is sent when both coordinates are known
TapAt(cache, fetches, x, y) ==
    IF x = Undefined \/ y = Undefined
    THEN Reply(cache, fetches, "Please provide x,y coordinates, text, resourceId, or index", Undefined)
    ELSE Reply(cache, fetches,
               "Tapped at (" \o ToString(x[1]) \o ", " \o ToString(y[1]) \o ")",
               Some([cmd |-> "tap", x |-> x[1], y |-> y[1]]))

\* lines 348-368: the hierarchy is read, the target is looked up by text or
\* else by resource id
TapByName(cache, fetches, a) ==
    LET found == IF TruthyString(a.text) THEN findByText(cache, a.text[1])
                 ELSE findByResourceId(cache, a.resourceId[1])
        clickable == SelectSeq(found, LAMBDA el : el.clickable)
        target == IF Len(clickable) > 0 THEN clickable[1] ELSE found[1]
    IN  IF Len(found) = 0
        THEN Reply(cache, fetches,
                   "Element not found: " \o (IF TruthyString(a.text) THEN a.text[1] ELSE a.resourceId[1]),
                   Undefined)
        ELSE TapAt(cache, fetches, Some(target.centerX), Some(target.centerY))

\* lines 340-368, after the cache was refreshed for a tap by index
TapAfterRefresh(first, xml, a) ==
    LET hits == {i \in 1..Len(first.cachedElements) :
                    IsDefined(a.index) /\ first.cachedElements[i].index = a.index[1]}
    IN  IF IsDefined(a.index) /\ hits = {}
        THEN Reply(first.cachedElements, first.fetches,
                   "Element with index " \o ToString(a.index[1]) \o " not found. Run get_ui first.",
                   Undefined)
        ELSE IF TruthyString(a.text) \/ TruthyString(a.resourceId)
        THEN TapByName(ParsedDump[xml], first.fetches + 1, a)
        ELSE IF IsDefined(a.index)
        THEN TapAt(first.cachedElements, first.fetches,
                   Some(first.cachedElements[FirstOf(hits)].centerX),
                   Some(first.cachedElements[FirstOf(hits)].centerY))
        ELSE TapAt(first.cachedElements, first.fetches, a.x, a.y)

HandleTap(cache0, xml, a) ==
    TapAfterRefresh(IF IsDefined(a.index) THEN RefreshIfEmpty(cache0, xml)
                    ELSE [cachedElements |-> cache0, fetches |-> 0],
                    xml, a)

HandleLongPress(cache0, xml, a) ==
    LET duration == IF IsDefined(a.duration) THEN a.duration[1] ELSE 1000
        byText   == TruthyString(a.text)
        cache1   == IF byText THEN ParsedDump[xml] ELSE cache0
        fetches  == IF byText THEN 1 ELSE 0
        found    == IF byText THEN findByText(cache1, a.text[1]) ELSE <<>>
    IN  IF byText /\ Len(found) = 0
        THEN Reply(cache1, fetches, "Element not found: " \o a.text[1], Undefined)
        ELSE
        LET x == IF byText THEN Some(found[1].centerX) ELSE a.x
            y == IF byText THEN Some(found[1].centerY) ELSE a.y
        IN  IF x = Undefined \/ y = Undefined
            THEN Reply(cache1, fetches, "Please provide x,y coordinates or text", Undefined)
            ELSE Reply(cache1, fetches,
                       "Long pressed at (" \o ToString(x[1]) \o ", " \o ToString(y[1]) \o ") for "
                           \o ToString(duration) \o "ms",
                       Some([cmd |-> "longPress", x |-> x[1], y |-> y[1], duration |-> duration]))

HandleFindElement(xml, a) ==
    LET cache == ParsedDump[xml]
        found == findElements(cache,
                     Criteria(a.text, a.resourceId, a.className, a.clickable, Undefined, Undefined))
        shown == SliceTo(found, 20)
        list  == Join([i \in 1..Len(shown) |-> formatElement(shown[i])], "\n")
    IN  IF Len(found) = 0
        THEN Reply(cache, 1, "No elements found matching criteria", Undefined)
        ELSE Reply(cache, 1,
                   "Found " \o ToString(Len(found)) \o " element(s):\n" \o list
                       \o (IF Len(found) > 20 THEN "\n..." ELSE ""),
                   Undefined)

TapArgs ==
    [x : {Undefined, Some(5)}, y : {Undefined, Some(7)},
     index : {Undefined, Some(0), Some(1), Some(9)},
     text : {Undefined, Some("ok"), Some("zzz")},
     resourceId : {Undefined, Some("btn")}]

LongPressArgs ==
    [x : {Undefined, Some(5)}, y : {Undefined, Some(7)},
     text : {Undefined, Some(""), Some("ok"), Some("zzz")},
     duration : {Undefined, Some(500)}]

FindElementArgs ==
    [text : {Undefined, Some("ok")}, resourceId : {Undefined, Some("btn")},
     className : {Undefined}, clickable : {Undefined, Some(TRUE)}]

InitRouter ==
    /\ pc = "idle"
    /\ input = ""
    /\ elements = <<>>
    /\ description = ""
    /\ args = NoArgs
    /\ result = NULL
    /\ cachedElements = <<>>
    /\ device \in [screen : RouterDumps, lastDump : {Undefined}]

\* the call has run: the cache and the reply are stored, a dump that was read
\* is the last dump read, and a gesture that was sent may change the screen
Handled(name, a, reply) ==
    /\ pc' = name
    /\ args' = a
    /\ cachedElements' = reply.cachedElements
    /\ result' = [text |-> reply.text, fetches |-> reply.fetches, sent |-> reply.sent]
    /\ \E screen \in (IF IsDefined(reply.sent) THEN RouterDumps ELSE {device.screen}) :
          device' = [screen |-> screen,
                     lastDump |-> IF reply.fetches > 0 THEN Some(device.screen) ELSE device.lastDump]
    /\ UNCHANGED <<input, elements, description>>

GetUiCall ==
    \E a \in [showAll : {Undefined, Some(TRUE)}] :
        \E reply \in {HandleGetUi(device.screen, a)} : Handled("get_ui", a, reply)

TapCall ==
    \E a \in TapArgs :
        \E reply \in {HandleTap(cachedElements, device.screen, a)} : Handled("tap", a, reply)

LongPressCall ==
    \E a \in LongPressArgs :
        \E reply \in {HandleLongPress(cachedElements, device.screen, a)} : Handled("long_press", a, reply)

FindElementCall ==
    \E a \in FindElementArgs :
        \E reply \in {HandleFindElement(device.screen, a)} : Handled("find_element", a, reply)

\* a tool that leaves the cache alone
PressKeyCall ==
    \E key \in {"BACK"} :
        Handled("press_key", [key |-> key],
                Reply(cachedElements, 0, "Pressed key: " \o key, Some([cmd |-> "pressKey", key |-> key])))

NextRouter == GetUiCall \/ TapCall \/ LongPressCall \/ FindElementCall \/ PressKeyCall

SpecRouter == InitRouter /\ [][NextRouter]_vars

(***************************************************************************)
(* Claims about the router's cache                                         *)
(***************************************************************************)
CacheIsLastDump ==
    IF IsDefined(device.lastDump)
    THEN cachedElements = parseUiHierarchy(device.lastDump[1])
    ELSE cachedElements = <<>>

\* a tap that names its target by index and by nothing else
TapByIndexOnly(a) ==
    /\ a.index # <<>>
    /\ a.text \in {<<>>, <<"">>}
    /\ a.resourceId \in {<<>>, <<"">>}

IndexAbsent(cache, idx) == \A i \in 1..Len(cache) : cache[i].index # idx

\* the cache a tap by index looks into: the cache as the call finds it, or
\* the parse of a new dump when that cache is empty
CacheForIndex ==
    IF cachedElements = <<>> THEN ParsedDump[device.screen] ELSE cachedElements

TapByIndexStep ==
    (pc' = "tap" /\ TapByIndexOnly(args')) =>
        /\ result'.fetches = (IF cachedElements = <<>> THEN 1 ELSE 0)
        /\ cachedElements' = CacheForIndex
        /\ \A i \in 1..Len(CacheForIndex) :
              CacheForIndex[i].index = args'.index[1] =>
                  /\ result'.sent # <<>>
                  /\ result'.sent[1].x = CacheForIndex[i].centerX
                  /\ result'.sent[1].y = CacheForIndex[i].centerY

AbsentIndexStep ==
    (pc' = "tap" /\ args'.index # <<>> /\ IndexAbsent(CacheForIndex, args'.index[1])) =>
        /\ result'.sent = <<>>
        /\ result'.text = "Element with index " \o ToString(args'.index[1]) \o " not found. Run get_ui first."
        /\ device'.screen = device.screen

\* C30: after any sequence of get_ui, tap, long_press and find_element calls
\* the cache equals the parse of the dump the router read last; a tap by
\* index resolves against the cache and reads a new dump only when the cache
\* is empty; an index absent from the cache yields the "not found" message
\* and no tap is sent to the device.
C30_CacheIsTheLastDump ==
    /\ []CacheIsLastDump
    /\ [][TapByIndexStep /\ AbsentIndexStep]_vars

\* a tap by index on a filled cache that shows another screen than the
\* device: the tap goes to the cached element and no dump is read
C30_Witness ==
    /\ pc = "tap"
    /\ TapByIndexOnly(args)
    /\ result.fetches = 0
    /\ result.sent # <<>>
    /\ Len(cachedElements) = 2
    /\ args.index = <<1>>
    /\ result.sent[1].x = cachedElements[2].centerX
    /\ device.lastDump # <<device.screen>>

=============================================================================
